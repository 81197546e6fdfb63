------------------------------- MODULE SignIns -------------------------------
(***************************************************************************)
(* Which sign-ins a user is told of (auditlogs).  A sign-in is recorded    *)
(* and, by the mode that is set, compared with what is known: the cookie   *)
(* of a browser, and the records of earlier sign-ins from the same place   *)
(* (address and user agent).  A passkey sign-in does both in a transaction *)
(* and is seen by others when it commits; a sign-in with a code, or on     *)
(* another device, makes one call after the other.                         *)
(***************************************************************************)
EXTENDS Naturals

CONSTANTS
  User, Browser, Place,
  Attempt,     \* requests that sign in, each at most one at a time
  NoUser,
  MaxSignIns   \* bound on the sign-ins that are begun

ASSUME NoUserAssumption == NoUser \notin User

Mode == {"always", "browserRecognition", "ipAndUserAgent", "disabled"}
\* A sign-in with a code; one on another device is the same, but that it fails
\* if it cannot be recorded.
Method == {"passkey", "code"}

VARIABLES
  cookie,     \* whom the cookie of a browser stands for
  log,        \* the records of sign-ins that others see
  attempt,    \* what each request is doing
  begun,      \* how many sign-ins were begun
  recorded,   \* history: all that was ever in the log
  remembered  \* history: <<user, browser>> that were given a cookie

signInVars == <<cookie, log, attempt, begun, recorded, remembered>>

Entry(a) == [id |-> a.id, user |-> a.user, place |-> a.place]
NoAttempt == [at |-> "waiting"]

SignInInit ==
  /\ cookie = [b \in Browser |-> NoUser]
  /\ log = {} /\ recorded = {} /\ remembered = {}
  /\ attempt = [r \in Attempt |-> NoAttempt]
  /\ begun = 0

Recognised(b, u, mode) == mode = "browserRecognition" /\ cookie[b] = u

\* History: a record was made of another sign-in of the user from the place
\* before these compared the records.
Crossing(a) ==
  [s \in Attempt |->
     IF /\ attempt[s].at = "recorded"
        /\ attempt[s].user = a.user /\ attempt[s].place = a.place
     THEN [attempt[s] EXCEPT !.crossed = TRUE] ELSE attempt[s]]

(* Create.  The mode and the cookie are those of the request.              *)
Record(r, method, u, b, p, mode) ==
  LET a == [at |-> "recorded", id |-> begun + 1, method |-> method, user |-> u,
            browser |-> b, place |-> p, mode |-> mode,
            known |-> Recognised(b, u, mode), told |-> FALSE, blind |-> FALSE,
            crossed |-> FALSE] IN
  /\ attempt[r] = NoAttempt /\ begun < MaxSignIns
  /\ begun' = begun + 1
  /\ \/ /\ attempt' = [Crossing(a) EXCEPT ![r] = a]
        /\ IF method = "passkey" THEN UNCHANGED <<log, recorded>>
           ELSE log' = log \cup {Entry(a)} /\ recorded' = recorded \cup {Entry(a)}
     \/ \* The insertion fails and the sign-in goes on.
        /\ method = "code"
        /\ attempt' = [attempt EXCEPT ![r] = [a EXCEPT !.at = "unrecorded"]]
        /\ UNCHANGED <<log, recorded>>
  /\ UNCHANGED <<cookie, remembered>>

SeenBefore_Self(a) ==  \* mutant: the record counts itself
  \E e \in log \cup {Entry(a)} : e.user = a.user /\ e.place = a.place
(* The records of the same user and place, but for one's own.              *)
SeenBefore(a) ==
  \E e \in log : e.user = a.user /\ e.place = a.place /\ e.id # a.id

Notify(a) ==
  \/ a.mode = "always"
  \/ a.mode = "browserRecognition" /\ ~a.known /\ ~SeenBefore(a)
  \/ a.mode = "ipAndUserAgent" /\ ~SeenBefore(a)

(* The rest of CreateSignIn.  Where the records cannot be counted nobody   *)
(* is told.                                                                *)
CheckHistory(r) ==
  LET a == attempt[r] IN
  /\ a.at = "recorded"
  /\ \/ attempt' = [attempt EXCEPT ![r].at = "checked", ![r].told = Notify(a)]
     \/ /\ a.mode = "ipAndUserAgent" \/ (a.mode = "browserRecognition" /\ ~a.known)
        /\ attempt' = [attempt EXCEPT ![r].at = "checked", ![r].blind = TRUE]
  /\ UNCHANGED <<cookie, log, begun, recorded, remembered>>

(* The transaction commits, the notice is sent and the cookie renewed.     *)
Answer(r) ==
  LET a == attempt[r] IN
  /\ a.at = "checked"
  /\ log' = IF a.method = "passkey" THEN log \cup {Entry(a)} ELSE log
  /\ recorded' = recorded \cup {Entry(a)}
  /\ attempt' = [attempt EXCEPT ![r] = NoAttempt]
  /\ IF a.mode = "browserRecognition"
       THEN /\ cookie' = [cookie EXCEPT ![a.browser] = a.user]
            /\ remembered' = remembered \cup {<<a.user, a.browser>>}
       ELSE UNCHANGED <<cookie, remembered>>
  /\ UNCHANGED begun

(* The request fails or the process stops; a record outside a transaction  *)
(* stays.                                                                  *)
FailSignIn(r) ==
  /\ attempt[r] # NoAttempt
  /\ attempt' = [attempt EXCEPT ![r] = NoAttempt]
  /\ UNCHANGED <<cookie, log, begun, recorded, remembered>>

(* Records older than the retention are deleted.                           *)
ClearAuditLogs(last) ==
  /\ \E e \in log : e.id = last
  /\ log' = {e \in log : e.id > last}
  /\ UNCHANGED <<cookie, attempt, begun, recorded, remembered>>

(* The cookie expires after 180 days, or goes with the key that signed it. *)
ForgetBrowser(b) ==
  /\ cookie' = [cookie EXCEPT ![b] = NoUser]
  /\ UNCHANGED <<log, attempt, begun, recorded, remembered>>

SignInStep ==
  \/ \E r \in Attempt :
       \/ \E method \in Method, u \in User, b \in Browser, p \in Place, mode \in Mode :
            Record(r, method, u, b, p, mode)
       \/ CheckHistory(r) \/ Answer(r) \/ FailSignIn(r)
  \/ \E last \in 1 .. MaxSignIns : ClearAuditLogs(last)
  \/ \E b \in Browser : ForgetBrowser(b)

SignInSpec == SignInInit /\ [][SignInStep]_signInVars

-----------------------------------------------------------------------------
Untold(a) ==
  /\ a.at = "checked" /\ ~a.told /\ ~a.blind
  /\ a.mode \in {"browserRecognition", "ipAndUserAgent"}

FromPlace(a, entries) == \E e \in entries : e.user = a.user /\ e.place = a.place

(* A sign-in the user is not told of is not the first from its place, or   *)
(* its browser was remembered for the user, whichever records were deleted,*)
(* whoever else uses the browser, unless it could not be recorded or the   *)
(* records could not be counted.  There is one more exception: a later     *)
(* sign-in from the place was recorded before this one compared.  The      *)
(* query counts any other record, not only earlier ones, so that two       *)
(* sign-ins with codes from a new place may each take the other for an     *)
(* earlier one and nobody is told of either.                               *)
StrangersAreTold ==
  \A r \in Attempt : Untold(attempt[r]) =>
    LET a == attempt[r] IN
    \/ FromPlace(a, {e \in recorded : e.id < a.id})
    \/ a.mode = "browserRecognition" /\ <<a.user, a.browser>> \in remembered
    \/ a.crossed
=============================================================================
