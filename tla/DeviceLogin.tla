----------------------------- MODULE DeviceLogin -----------------------------
(***************************************************************************)
(* `auth login` and `auth logout`: the device authorization of             *)
(* packages/dp-rust-sdk/src/session.rs, driven by packages/dp-cli/src/     *)
(* commands/auth.rs, with the server that wants to be asked at intervals,  *)
(* the user who approves in a browser when it suits them, and the session  *)
(* file.  Time passes in ticks, at any moment, also while a request is on  *)
(* its way: a clock here counts down, so that nothing has to be bounded.   *)
(***************************************************************************)
EXTENDS Integers, FiniteSets, FiniteSetsExt

CONSTANTS
  DefaultInterval, MinInterval, SlowDown,   \* 5, 1 and 5 seconds in the source
  DefaultTimeout, MinTimeout,               \* 600 and 30 seconds
  Intervals,   \* the intervals the server may state, None for none
  Lifetimes,   \* the same for the lifetime of a device code
  Token,       \* session tokens
  None

ASSUME DurationsAreDurations ==
  /\ {DefaultInterval, MinInterval, SlowDown, DefaultTimeout, MinTimeout} \subseteq Nat \ {0}
  /\ Intervals \cup Lifetimes \subseteq Nat \cup {None}
  /\ None \notin Nat \cup Token

VARIABLES
  pc,        \* login: what it is doing
  interval, left, nap,   \* ... its interval, the time to its deadline and to its next poll
  mine,      \* ... the session it is about to save
  code,      \* server: the device code, and the time for which it is good
  owed,      \* server: the time until it may be polled again
  atLeast,   \* server: the interval it has asked for
  inTime,    \* the approval came while the login was waiting for it
  file,      \* the session file
  out,       \* logout: what it is doing, and the session it found
  pastedBack \* ... that very session was pasted, and saved, meanwhile

loginVars  == <<pc, interval, left, nap, mine>>
serverVars == <<code, owed, atLeast>>
vars == <<pc, interval, left, nap, mine, code, owed, atLeast, inTime, file, out,
          pastedBack>>

NoCode == [status |-> "none", life |-> 0]

Init ==
  /\ pc = "idle" /\ interval = MinInterval /\ left = 0 /\ nap = 0
  /\ mine = None /\ file = None
  /\ code = NoCode /\ owed = 0 /\ atLeast = 0
  /\ inTime = FALSE
  /\ out = [pc |-> "idle", token |-> None] /\ pastedBack = FALSE

Or(stated, otherwise) == IF stated = None THEN otherwise ELSE stated

(* A session comes from the server, or from the user. *)
Session == [token : Token, by : {"device", "paste"}]

(* The server gives no token twice. *)
Fresh == Token \ {file, out.token}

Down(clock) == IF clock \in {None, 0} THEN clock ELSE clock - 1

Tick ==
  /\ left' = Down(left) /\ nap' = Down(nap) /\ owed' = Down(owed)
  /\ code' = [code EXCEPT !.life = Down(code.life)]
  /\ UNCHANGED <<pc, interval, mine, atLeast, inTime, file, out, pastedBack>>

-----------------------------------------------------------------------------
(* The user, in the browser *)

Decides(status) ==
  /\ code.status = "pending" /\ code.life # 0
  /\ code' = [code EXCEPT !.status = status]
  /\ UNCHANGED <<loginVars, owed, atLeast, file, out, pastedBack>>

UserApproves == Decides("approved") /\ inTime' = (pc = "sleeping")

UserDenies == Decides("denied") /\ UNCHANGED inTime

-----------------------------------------------------------------------------
(* auth login *)

(* The login is over, asks the user, or goes on to save what it has. *)
Leaves(l, session) ==
  pc' = l /\ mine' = session /\ interval' = MinInterval /\ left' = 0 /\ nap' = 0

Login ==
  /\ pc = "idle" /\ pc' = "asking"
  /\ inTime' = FALSE
  /\ UNCHANGED <<interval, left, nap, mine, serverVars, file, out, pastedBack>>

(* device/code: the interval and the lifetime are optional, too short ones *)
(* are raised.                                                             *)
DeviceCodeUnraised ==   \* Broken: they are not raised.
  /\ pc = "asking"
  /\ \E every \in Intervals, life \in Lifetimes :
       /\ code' = [status |-> "pending", life |-> life]
       /\ atLeast' = Or(every, DefaultInterval) /\ owed' = atLeast'
       /\ interval' = atLeast' /\ left' = Or(life, DefaultTimeout)
  /\ nap' = interval' /\ pc' = "sleeping"
  /\ UNCHANGED <<mine, inTime, file, out, pastedBack>>

DeviceCode ==
  /\ pc = "asking"
  /\ \E every \in Intervals, life \in Lifetimes :
       /\ code' = [status |-> "pending", life |-> life]
       /\ atLeast' = Or(every, DefaultInterval) /\ owed' = atLeast'
       /\ interval' = Max({Or(every, DefaultInterval), MinInterval})
       /\ left' = Max({Or(life, DefaultTimeout), MinTimeout})
  /\ nap' = interval' /\ pc' = "sleeping"
  /\ UNCHANGED <<mine, inTime, file, out, pastedBack>>

(* Broken: the deadline is tested after the sleep as well. *)
WakeLate ==
  /\ pc = "sleeping" /\ nap = 0
  /\ pc' = IF left = 0 THEN "timed_out" ELSE "polling"
  /\ UNCHANGED <<interval, left, nap, mine, serverVars, inTime, file, out, pastedBack>>

(* The sleep is over; nobody looks at the deadline now. *)
Wake ==
  /\ pc = "sleeping" /\ nap = 0 /\ pc' = "polling"
  /\ UNCHANGED <<interval, left, nap, mine, serverVars, inTime, file, out, pastedBack>>

(* device/token arrives at the server.  A poll that is too early is told    *)
(* to slow down, and so may be one that is not.                            *)
ToldToSlowDown ==
  /\ code.status = "pending" \/ owed > 0
  /\ atLeast' = atLeast + SlowDown
  /\ pc' = "slow_down"
  /\ UNCHANGED <<interval, left, nap, mine, code>>

ToldToWait ==
  /\ code.status = "pending" /\ code.life # 0 /\ owed = 0
  /\ pc' = "pending"
  /\ UNCHANGED <<interval, left, nap, mine, code, atLeast>>

ToldToken ==
  /\ code.status = "approved" /\ code.life # 0 /\ owed = 0
  /\ \E t \in Fresh : Leaves("saving", [token |-> t, by |-> "device"])
  /\ code' = NoCode
  /\ UNCHANGED atLeast

(* expired_token, access_denied *)
ToldNo ==
  /\ code.status = "denied" \/ code.life = 0
  /\ owed = 0
  /\ Leaves("idle", None)
  /\ UNCHANGED <<code, atLeast>>

Polled ==
  /\ pc = "polling"
  /\ ToldToSlowDown \/ ToldToWait \/ ToldToken \/ ToldNo
  /\ owed' = atLeast'
  /\ UNCHANGED <<inTime, file, out, pastedBack>>

(* Broken: the interval stays what it was. *)
AgainAsBefore ==
  /\ pc \in {"pending", "slow_down"}
  /\ IF left = 0
       THEN pc' = "timed_out" /\ UNCHANGED <<nap, interval>>
       ELSE pc' = "sleeping" /\ nap' = interval /\ UNCHANGED interval
  /\ UNCHANGED <<left, mine, serverVars, inTime, file, out, pastedBack>>

(* Broken: a login that is to wait does not look at the clock. *)
AgainUntilTold ==
  /\ pc \in {"pending", "slow_down"}
  /\ interval' = IF pc = "slow_down" THEN interval + SlowDown ELSE interval
  /\ IF left = 0 /\ pc = "slow_down"
       THEN pc' = "timed_out" /\ UNCHANGED nap
       ELSE pc' = "sleeping" /\ nap' = interval'
  /\ UNCHANGED <<left, mine, serverVars, inTime, file, out, pastedBack>>

(* The top of the loop. *)
Again ==
  /\ pc \in {"pending", "slow_down"}
  /\ interval' = IF pc = "slow_down" THEN interval + SlowDown ELSE interval
  /\ IF left = 0
       THEN pc' = "timed_out" /\ UNCHANGED nap
       ELSE pc' = "sleeping" /\ nap' = interval'
  /\ UNCHANGED <<left, mine, serverVars, inTime, file, out, pastedBack>>

TimedOut ==
  /\ pc = "timed_out" /\ Leaves("idle", None)
  /\ UNCHANGED <<serverVars, inTime, file, out, pastedBack>>

(* Ctrl-C, a request that fails, a kill. *)
LoginFails ==
  /\ pc # "idle" /\ Leaves("idle", None)
  /\ UNCHANGED <<serverVars, inTime, file, out, pastedBack>>

(* --paste, or the server knows no device authorization (an answer with a  *)
(* status of 4xx, also to a poll): the user is asked for a token ...       *)
Prompt ==
  /\ pc \in {"idle", "asking", "polling"} /\ Leaves("prompt", None)
  /\ inTime' = FALSE
  /\ UNCHANGED <<serverVars, file, out, pastedBack>>

(* ... and pastes any, also the one that is in the session file, or was.   *)
Paste ==
  /\ pc = "prompt"
  /\ \E t \in Token : Leaves("saving", [token |-> t, by |-> "paste"])
  /\ UNCHANGED <<serverVars, inTime, file, out, pastedBack>>

(* get_session is called, its result does not matter; then the session is  *)
(* saved over the one that was there.                                      *)
SaveSession ==
  /\ pc = "saving" /\ file' = mine.token /\ Leaves("idle", None)
  /\ pastedBack' = (pastedBack \/ mine = [token |-> out.token, by |-> "paste"])
  /\ UNCHANGED <<serverVars, inTime, out>>

LoginGoesOn == Wake \/ Polled \/ Again \/ TimedOut \/ SaveSession

LoginNext == Login \/ Prompt \/ Paste \/ DeviceCode \/ LoginGoesOn \/ LoginFails

-----------------------------------------------------------------------------
(* auth logout, in another terminal *)

LogoutStep(from, to, token) ==
  /\ out.pc = from /\ out' = [pc |-> to, token |-> token]
  /\ UNCHANGED <<loginVars, serverVars, inTime>>

(* apply_stored_session *)
Logout ==
  LogoutStep("idle", "sign_out", file) /\ pastedBack' = FALSE /\ UNCHANGED file

(* Broken: the file is removed only when the server has been told. *)
SignOutFirst ==
  /\ \/ LogoutStep("sign_out", "delete", out.token)
     \/ LogoutStep("sign_out", "logged_out", out.token)
  /\ UNCHANGED <<file, pastedBack>>

(* The result does not matter. *)
SignOut == LogoutStep("sign_out", "delete", out.token) /\ UNCHANGED <<file, pastedBack>>

DeleteSession ==
  LogoutStep("delete", "logged_out", out.token) /\ file' = None /\ UNCHANGED pastedBack

LogoutEnds ==
  LogoutStep("logged_out", "idle", None) /\ UNCHANGED <<file, pastedBack>>

LogoutFails ==
  /\ \E l \in {"sign_out", "delete"} : LogoutStep(l, "idle", None)
  /\ UNCHANGED <<file, pastedBack>>

LogoutNext == Logout \/ SignOut \/ DeleteSession \/ LogoutEnds \/ LogoutFails

-----------------------------------------------------------------------------
(* What is pasted, kept in the session file, and sent *)

(* How a pasted text begins (COOKIE: "cookie:" in other letters, which is  *)
(* recognised but not cut off), whether what is left of it begins with     *)
(* "cookie:", and whether it names the session cookie and has an "=".      *)
Pasted ==
  { t \in [prefix : {"Cookie", "COOKIE", "Bearer", "none"}, again : BOOLEAN,
            names : BOOLEAN, pair : BOOLEAN] :
      /\ t.names => t.pair
      /\ t.prefix = "COOKIE" => t.again
      /\ t.prefix = "none" \/ (t.prefix = "Bearer" /\ t.names) => ~t.again }

FromPasted(t) ==
  [transport |-> IF t.prefix \in {"Cookie", "COOKIE"} \/ t.names THEN "cookie" ELSE "bearer",
   again |-> t.again, names |-> t.names, pair |-> t.pair]

(* A bare cookie value is given the name. *)
ToClientAuth(s) ==
  LET bare == s.transport = "cookie" /\ ~s.pair
  IN [again |-> s.again /\ ~bare, names |-> s.names \/ bare]

(* The transport is guessed from the text again. *)
LooksLikeCookie(auth) == auth.again \/ auth.names

SentAs(auth) == IF LooksLikeCookie(auth) THEN "cookie" ELSE "bearer"

(* The guess is right, except for a cookie with another name, and for a    *)
(* bearer token that itself begins with "cookie:".                         *)
ASSUME TransportIsGuessed ==
  \A t \in Pasted :
    LET s == FromPasted(t)
    IN SentAs(ToClientAuth(s)) # s.transport
         <=> IF s.transport = "cookie" THEN s.pair /\ ~s.names /\ ~s.again ELSE s.again

-----------------------------------------------------------------------------
Next == Tick \/ UserApproves \/ UserDenies \/ LoginNext \/ LogoutNext

Spec == Init /\ [][Next]_vars

(* Time passes, the server answers, and what can go on does; nobody has to *)
(* approve anything.                                                       *)
FairSpec == Spec /\ WF_vars(Tick) /\ WF_vars(LoginGoesOn) /\ WF_vars(DeviceCode)

-----------------------------------------------------------------------------
(* Properties *)

TypeOK ==
  /\ pc \in {"idle", "asking", "sleeping", "polling", "pending", "slow_down",
             "timed_out", "prompt", "saving"}
  /\ {interval, left, nap, owed, atLeast} \subseteq Nat
  /\ interval >= MinInterval
  /\ code \in [status : {"none", "pending", "approved", "denied"},
               life : Nat \cup {None}]
  /\ inTime \in BOOLEAN /\ pastedBack \in BOOLEAN
  /\ file \in Token \cup {None}
  /\ mine \in IF pc = "saving" THEN Session ELSE {None}
  /\ out \in [pc : {"idle", "sign_out", "delete", "logged_out"},
              token : Token \cup {None}]

(* A poll never reaches the server sooner than it has asked for, whatever  *)
(* it states or leaves out, as often as it says slow_down, and however     *)
(* long its answers take.                                                  *)
PollsNeverTooSoon == [][Polled => owed = 0]_vars

(* An approval that comes while the login sleeps is not answered with      *)
(* "timed out", though the deadline may pass before the login wakes: the   *)
(* poll after the deadline still fetches the token.                        *)
ApprovalNotLost == pc = "timed_out" => ~inTime

(* Every login ends or asks the user for a token, even if nobody approves, *)
(* the device code never expires and the server keeps saying slow_down:    *)
(* the deadline is looked at between any two polls.                        *)
LoginEnds == pc \notin {"idle", "prompt"} ~> pc \in {"idle", "prompt"}

(* Once "logged out" is printed, the session that was there when logout    *)
(* began is in the file no more, whatever a login did meanwhile, unless    *)
(* the user pasted that very session into one that saved it since then.    *)
LoggedOutStaysOut ==
  out.pc = "logged_out" /\ out.token # None /\ file = out.token => pastedBack
=============================================================================
