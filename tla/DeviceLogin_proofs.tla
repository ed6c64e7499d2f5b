-------------------------- MODULE DeviceLogin_proofs --------------------------
(***************************************************************************)
(* Proofs about DeviceLogin, for any durations, intervals, lifetimes and   *)
(* session tokens.                                                         *)
(***************************************************************************)
EXTENDS DeviceLogin, TLAPS

-----------------------------------------------------------------------------
(* The inductive invariant *)

(* The login's clock is never behind the server's: it sleeps for as long   *)
(* as the server is owed, and keeps an interval of what the server asks    *)
(* for, once it has heard a slow_down.                                     *)
KeepsPace ==
  /\ owed <= atLeast
  /\ pc = "sleeping" => nap >= owed
  /\ pc = "polling" => owed = 0
  /\ pc \in {"sleeping", "polling", "pending"} => interval >= atLeast
  /\ pc = "slow_down" => interval + SlowDown >= atLeast

(* A login that was approved in time has the approved code until it is     *)
(* over, and is never told to wait.                                        *)
ApprovalKept ==
  /\ inTime /\ pc \in {"sleeping", "polling"} => code.status = "approved"
  /\ inTime => pc \notin {"asking", "pending", "slow_down", "timed_out"}

(* A token the server gave a login is neither in the file nor the one      *)
(* logout found; what the user pasted may be both.                         *)
TokensApart ==
  /\ pc = "saving" /\ mine.by = "device" => mine.token \notin {file, out.token}
  /\ LoggedOutStaysOut

LoginInv == TypeOK /\ KeepsPace /\ ApprovalKept /\ TokensApart

-----------------------------------------------------------------------------
(* Lemmas *)

(* What raising to a minimum gives, for an interval as for a deadline.     *)
LEMMA Raised ==
  ASSUME NEW a \in Nat, NEW b \in Nat
  PROVE  Max({a, b}) \in Nat /\ Max({a, b}) >= a /\ Max({a, b}) >= b
<1>1. \E x \in {a, b} : \A y \in {a, b} : x >= y
  OBVIOUS
<1>2. Max({a, b}) \in {a, b} /\ \A y \in {a, b} : Max({a, b}) >= y
  BY <1>1 DEF Max
<1>3. QED
  BY <1>2

(* A clock that counts down does not go below zero, and one that is not    *)
(* ahead of another does not get ahead of it.                              *)
LEMMA CountsDown ==
  ASSUME NEW a \in Nat, NEW b \in Nat
  PROVE  /\ Down(a) \in Nat /\ Down(a) <= a
         /\ a <= b => Down(a) <= Down(b)
         /\ a = 0 => Down(a) = 0
BY DurationsAreDurations DEF Down

(* The shortest interval is one.                                          *)
LEMMA Shortest == MinInterval \in Nat /\ MinInterval >= MinInterval /\ 0 \in Nat
BY DurationsAreDurations

(* What the server states or leaves out is a duration.                     *)
LEMMA Stated ==
  /\ \A every \in Intervals : Or(every, DefaultInterval) \in Nat
  /\ \A life \in Lifetimes : Or(life, DefaultTimeout) \in Nat /\ life \in Nat \cup {None}
BY DurationsAreDurations DEF Or

(* The steps of a login by kind: the clocks, the user, the login, logout.  *)
LEMMA TypeStep == TypeOK /\ [Next]_vars => TypeOK'
<1> SUFFICES ASSUME TypeOK, [Next]_vars PROVE TypeOK'
  OBVIOUS
<1> USE DurationsAreDurations
<1> USE DEF TypeOK
<1>1. CASE Tick
  <2>1. Down(code.life) \in Nat \cup {None}
    BY DEF Down
  <2>2. QED
    BY <1>1, <2>1, CountsDown DEF Tick
<1>2. CASE UserApproves \/ UserDenies
  <2>1. PICK status \in {"approved", "denied"} : Decides(status)
    BY <1>2 DEF UserApproves, UserDenies
  <2>2. code' \in [status : {"none", "pending", "approved", "denied"}, life : Nat \cup {None}]
    BY <2>1 DEF Decides
  <2>3. inTime' \in BOOLEAN
    BY <1>2 DEF UserApproves, UserDenies
  <2>4. QED
    BY <2>1, <2>2, <2>3 DEF Decides, loginVars
<1>3. CASE Login \/ Prompt \/ Paste
  <2>1. CASE Login  BY <2>1 DEF Login, serverVars
  <2>2. CASE Prompt  BY <2>2, Shortest DEF Prompt, Leaves, serverVars
  <2>3. CASE Paste
    <3>1. PICK t \in Token : Leaves("saving", [token |-> t, by |-> "paste"])
      BY <2>3 DEF Paste
    <3>2. [token |-> t, by |-> "paste"] \in Session
      BY DEF Session
    <3>3. QED
      BY <2>3, <3>1, <3>2, Shortest DEF Paste, Leaves, serverVars
  <2>4. QED
    BY <1>3, <2>1, <2>2, <2>3
<1>4. CASE DeviceCode
  <2>1. PICK every \in Intervals, life \in Lifetimes :
          /\ code' = [status |-> "pending", life |-> life]
          /\ atLeast' = Or(every, DefaultInterval) /\ owed' = atLeast'
          /\ interval' = Max({Or(every, DefaultInterval), MinInterval})
          /\ left' = Max({Or(life, DefaultTimeout), MinTimeout})
    BY <1>4 DEF DeviceCode
  <2>2. /\ {interval', left', owed', atLeast'} \subseteq Nat /\ interval' >= MinInterval
        /\ code'.life \in Nat \cup {None}
    BY <2>1, Stated, Raised
  <2>3. QED
    BY <1>4, <2>1, <2>2 DEF DeviceCode
<1>5. CASE LoginGoesOn
  <2>1. CASE Wake  BY <2>1 DEF Wake, serverVars
  <2>2. CASE Polled
    <3>1. CASE ToldToSlowDown  BY <2>2, <3>1 DEF Polled, ToldToSlowDown
    <3>2. CASE ToldToWait  BY <2>2, <3>2 DEF Polled, ToldToWait
    <3>3. CASE ToldToken
      BY <2>2, <3>3, Shortest DEF Polled, ToldToken, Leaves, Fresh, Session, NoCode
    <3>4. CASE ToldNo  BY <2>2, <3>4 DEF Polled, ToldNo, Leaves
    <3>5. QED  BY <2>2, <3>1, <3>2, <3>3, <3>4 DEF Polled
  <2>3. CASE Again  BY <2>3 DEF Again, serverVars
  <2>4. CASE TimedOut \/ SaveSession
    <3>1. pastedBack' \in BOOLEAN /\ inTime' = inTime
      BY <2>4, Zenon DEF TimedOut, SaveSession
    <3>2. /\ pc' = "idle" /\ mine' = None /\ interval' = MinInterval
          /\ left' = 0 /\ nap' = 0 /\ UNCHANGED <<code, owed, atLeast, out>>
      BY <2>4 DEF TimedOut, SaveSession, Leaves, serverVars
    <3>3. file' \in Token \cup {None}
      BY <2>4 DEF TimedOut, SaveSession, Session
    <3>4. QED
      BY <3>1, <3>2, <3>3, Shortest
  <2>5. QED
    BY <1>5, <2>1, <2>2, <2>3, <2>4 DEF LoginGoesOn
<1>6. CASE LoginFails
  BY <1>6 DEF LoginFails, Leaves, serverVars
<1>7. CASE LogoutNext
  <2>1. pastedBack' \in BOOLEAN
    <3>1. CASE Logout  BY <3>1 DEF Logout
    <3>2. CASE ~ Logout
      BY <1>7, <3>2, Zenon DEF LogoutNext, SignOut, DeleteSession, LogoutEnds, LogoutFails
    <3>3. QED  BY <3>1, <3>2
  <2>2. UNCHANGED <<loginVars, serverVars, inTime>>
    BY <1>7 DEF LogoutNext, Logout, SignOut, DeleteSession, LogoutEnds, LogoutFails, LogoutStep
  <2>3. /\ out' \in [pc : {"idle", "sign_out", "delete", "logged_out"}, token : Token \cup {None}]
        /\ file' \in {file, None}
    <3>1. PICK l \in {"idle", "sign_out", "delete", "logged_out"}, t \in {file, out.token, None} :
            out' = [pc |-> l, token |-> t]
      BY <1>7 DEF LogoutNext, Logout, SignOut, DeleteSession, LogoutEnds, LogoutFails, LogoutStep
    <3>2. file' \in {file, None}
      BY <1>7 DEF LogoutNext, Logout, SignOut, DeleteSession, LogoutEnds, LogoutFails
    <3>3. QED  BY <3>1, <3>2
  <2>4. QED
    BY <2>1, <2>2, <2>3 DEF loginVars, serverVars
<1>8. CASE UNCHANGED vars
  BY <1>8 DEF vars
<1>9. QED
  BY <1>1, <1>2, <1>3, <1>4, <1>5, <1>6, <1>7, <1>8 DEF Next, LoginNext

-----------------------------------------------------------------------------
(* The pace of the polls *)

LEMMA KeepsPaceStep == TypeOK /\ KeepsPace /\ [Next]_vars => KeepsPace'
<1> SUFFICES ASSUME TypeOK, KeepsPace, [Next]_vars PROVE KeepsPace'
  OBVIOUS
<1> USE DurationsAreDurations
<1> USE DEF KeepsPace
<1>0. {interval, left, nap, owed, atLeast, SlowDown} \subseteq Nat
  BY DEF TypeOK
<1>1. CASE Tick
  BY <1>0, <1>1, CountsDown DEF Tick
<1>2. CASE UserApproves \/ UserDenies
  BY <1>2 DEF UserApproves, UserDenies, Decides, loginVars
<1>3. CASE Login \/ Prompt \/ Paste \/ LoginFails
  BY <1>3 DEF Login, Prompt, Paste, LoginFails, Leaves, serverVars
<1>4. CASE DeviceCode
  <2>1. PICK every \in Intervals :
          /\ atLeast' = Or(every, DefaultInterval) /\ owed' = atLeast'
          /\ interval' = Max({Or(every, DefaultInterval), MinInterval})
    BY <1>4 DEF DeviceCode
  <2>2. /\ pc' = "sleeping" /\ nap' = interval'
        /\ atLeast' \in Nat /\ interval' \in Nat /\ interval' >= atLeast'
    BY <1>4, <2>1, Stated, Raised DEF DeviceCode
  <2>3. QED
    BY <2>1, <2>2
<1>5. CASE Wake
  BY <1>0, <1>5 DEF Wake, serverVars
<1>6. CASE Polled
  <2>1. CASE ToldToSlowDown  BY <1>0, <1>6, <2>1 DEF Polled, ToldToSlowDown
  <2>2. CASE ToldToWait  BY <1>0, <1>6, <2>2 DEF Polled, ToldToWait
  <2>3. CASE ToldToken \/ ToldNo  BY <1>0, <1>6, <2>3 DEF Polled, ToldToken, ToldNo, Leaves
  <2>4. QED  BY <1>6, <2>1, <2>2, <2>3 DEF Polled
<1>7. CASE Again
  BY <1>0, <1>7 DEF Again, serverVars
<1>8. CASE TimedOut \/ SaveSession
  BY <1>8 DEF TimedOut, SaveSession, Leaves, serverVars
<1>9. CASE LogoutNext \/ UNCHANGED vars
  BY <1>9 DEF LogoutNext, Logout, SignOut, DeleteSession, LogoutEnds, LogoutFails, LogoutStep,
              loginVars, serverVars, vars
<1>10. QED
  BY <1>1, <1>2, <1>3, <1>4, <1>5, <1>6, <1>7, <1>8, <1>9 DEF Next, LoginNext, LoginGoesOn

-----------------------------------------------------------------------------
(* The approval *)

(* Since a poll is never too early, one that finds an approved code is not *)
(* told to slow down.                                                      *)
LEMMA ApprovalStep == TypeOK /\ KeepsPace /\ ApprovalKept /\ [Next]_vars => ApprovalKept'
<1> SUFFICES ASSUME TypeOK, KeepsPace, ApprovalKept, [Next]_vars PROVE ApprovalKept'
  OBVIOUS
<1> USE DEF ApprovalKept
<1>1. CASE Tick
  BY <1>1 DEF Tick, TypeOK
<1>2. CASE UserApproves \/ UserDenies
  BY <1>2 DEF UserApproves, UserDenies, Decides, loginVars, TypeOK
<1>3. CASE Login \/ Prompt \/ Paste \/ LoginFails \/ DeviceCode
  BY <1>3 DEF Login, Prompt, Paste, LoginFails, DeviceCode, Leaves, serverVars
<1>4. CASE Polled
  <2>1. pc = "polling" /\ ~ owed > 0
    BY <1>4 DEF Polled, KeepsPace
  <2>2. QED
    BY <1>4, <2>1 DEF Polled, ToldToSlowDown, ToldToWait, ToldToken, ToldNo, Leaves
<1>5. CASE Wake \/ Again \/ TimedOut \/ SaveSession
  BY <1>5 DEF Wake, Again, TimedOut, SaveSession, Leaves, serverVars
<1>6. CASE LogoutNext \/ UNCHANGED vars
  BY <1>6 DEF LogoutNext, Logout, SignOut, DeleteSession, LogoutEnds, LogoutFails, LogoutStep,
              loginVars, serverVars, vars
<1>7. QED
  BY <1>1, <1>2, <1>3, <1>4, <1>5, <1>6 DEF Next, LoginNext, LoginGoesOn

-----------------------------------------------------------------------------
(* Login and logout *)

LEMMA TokensStep == TypeOK /\ TokensApart /\ [Next]_vars => TokensApart'
<1> SUFFICES ASSUME TypeOK, TokensApart, [Next]_vars PROVE TokensApart'
  OBVIOUS
<1> USE DEF TokensApart, LoggedOutStaysOut
<1>1. CASE Tick \/ UserApproves \/ UserDenies
  BY <1>1 DEF Tick, UserApproves, UserDenies, Decides, loginVars
<1>2. CASE Login \/ Prompt \/ Paste \/ LoginFails \/ DeviceCode
  BY <1>2 DEF Login, Prompt, Paste, LoginFails, DeviceCode, Leaves
<1>3. CASE Polled
  BY <1>3 DEF Polled, ToldToSlowDown, ToldToWait, ToldToken, ToldNo, Leaves, Fresh
<1>4. CASE Wake \/ Again \/ TimedOut \/ SaveSession
  BY <1>4 DEF Wake, Again, TimedOut, SaveSession, Leaves, Session, TypeOK
<1>5. CASE LogoutNext
  <2>1. UNCHANGED <<pc, mine>>
    BY <1>5 DEF LogoutNext, Logout, SignOut, DeleteSession, LogoutEnds, LogoutFails, LogoutStep,
                loginVars
  <2>2. pc = "saving" => mine.token # None
    BY DurationsAreDurations DEF TypeOK, Session
  <2>3. CASE Logout
    <3>1. out'.pc = "sign_out" /\ out'.token = file /\ file' = file
      BY <2>3 DEF Logout, LogoutStep
    <3>2. QED
      BY <2>1, <3>1
  <2>4. CASE DeleteSession
    <3>1. out'.token = out.token /\ file' = None
      BY <2>4 DEF DeleteSession, LogoutStep
    <3>2. QED
      BY <2>1, <2>2, <3>1
  <2>5. CASE SignOut \/ LogoutEnds \/ LogoutFails
    <3>1. out'.token \in {out.token, None} /\ out'.pc # "logged_out" /\ file' = file
      BY <2>5 DEF SignOut, LogoutEnds, LogoutFails, LogoutStep
    <3>2. QED
      BY <2>1, <2>2, <3>1
  <2>6. QED
    BY <1>5, <2>3, <2>4, <2>5 DEF LogoutNext
<1>6. CASE UNCHANGED vars
  BY <1>6 DEF vars
<1>7. QED
  BY <1>1, <1>2, <1>3, <1>4, <1>5, <1>6 DEF Next, LoginNext, LoginGoesOn

-----------------------------------------------------------------------------
(* The theorems *)

LEMMA LoginInvInit == Init => LoginInv
<1> USE DurationsAreDurations
<1>1. Init => TypeOK
  <2> SUFFICES ASSUME Init PROVE TypeOK
    OBVIOUS
  <2>1. code \in [status : {"none", "pending", "approved", "denied"}, life : Nat \cup {None}]
    BY DEF Init, NoCode
  <2>2. out \in [pc : {"idle", "sign_out", "delete", "logged_out"}, token : Token \cup {None}]
    BY DEF Init
  <2>3. {interval, left, nap, owed, atLeast} \subseteq Nat /\ interval >= MinInterval
    BY Shortest DEF Init
  <2>4. QED
    BY <2>1, <2>2, <2>3 DEF Init, TypeOK
<1>2. Init => KeepsPace /\ ApprovalKept /\ TokensApart
  BY DEF Init, KeepsPace, ApprovalKept, TokensApart, LoggedOutStaysOut
<1>3. QED
  BY <1>1, <1>2 DEF LoginInv

LEMMA LoginInvStep == LoginInv /\ [Next]_vars => LoginInv'
BY TypeStep, KeepsPaceStep, ApprovalStep, TokensStep DEF LoginInv

LEMMA LoginInvariant == Spec => []LoginInv
BY LoginInvInit, LoginInvStep, PTL DEF Spec

(* The clocks, tokens and codes of a login and a logout keep their types,  *)
(* whatever the server states.                                             *)
THEOREM LoginTypeCorrect == Spec => []TypeOK
<1>1. LoginInv => TypeOK
  BY DEF LoginInv
<1>2. QED
  BY <1>1, LoginInvariant, PTL

(* No poll arrives sooner than the server asked, for any intervals and any *)
(* number of slow_downs.                                                   *)
THEOREM PollsPaced == Spec => PollsNeverTooSoon
<1>1. LoginInv /\ [Next]_vars => [Polled => owed = 0]_vars
  BY DEF LoginInv, KeepsPace, Polled
<1>2. QED
  BY <1>1, LoginInvariant, PTL DEF Spec, PollsNeverTooSoon

(* An approval that came while the login slept is never answered with a    *)
(* timeout.                                                                *)
THEOREM ApprovalHonoured == Spec => []ApprovalNotLost
<1>1. LoginInv => ApprovalNotLost
  BY DEF LoginInv, ApprovalKept, ApprovalNotLost
<1>2. QED
  BY <1>1, LoginInvariant, PTL

(* The session that logout found is in the file no more once it has said   *)
(* so, unless the user has pasted that session again in the meantime.      *)
THEOREM LogoutFinal == Spec => []LoggedOutStaysOut
<1>1. LoginInv => LoggedOutStaysOut
  BY DEF LoginInv, TokensApart
<1>2. QED
  BY <1>1, LoginInvariant, PTL
=============================================================================
