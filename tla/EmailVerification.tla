------------------------- MODULE EmailVerification -------------------------
(***************************************************************************)
(* One user's email address and its verification: the actor that holds the *)
(* outstanding link (backend/internal/emailverification), the edits of the *)
(* user's row (UserService.UpdateUser, UpdateUserGroups) and the job that  *)
(* deletes signups that were not verified in time (usersignup).            *)
(*                                                                         *)
(* Issuing a link, mailing it and discarding it after a failed delivery    *)
(* are separate steps, and so are consuming a link, updating the row and   *)
(* restoring the link after a failed update.  The user is not an           *)
(* administrator and not managed by LDAP, and may edit their own account.  *)
(* Transactions that lock the row are one step; UpdateUserGroups reads the *)
(* row without a lock and writes all of it back.  Where transactions       *)
(* exclude each other (SQLite), it is one step too, and changes nothing    *)
(* here.  Settings may change at any time, so a step is given their values.*)
(***************************************************************************)
EXTENDS Naturals, FiniteSets

CONSTANTS Emails, Links, Requests, Nothing

ASSUME EmailAssumption == Nothing \notin Emails \cup Links

VARIABLES
  row,       \* the user: email, email_verified, email_verification_deadline
  state,     \* the actor's State, Nothing when there is none
  sent,    \* tokens handed out so far
  inbox,     \* tokens whose link reached the address and has not run out
  expired,   \* tokens that have run out
  request,      \* requests and jobs in flight
  proven,    \* history: addresses shown to be the user's
  due,       \* history: the token sent last, until it is used, discarded,
             \* cancelled or out of time; again when it is restored
  changes,   \* history: tokens sent for an email change, until they run out
  cancelled, \* history: changes cancelled when no verification held them
  unticked   \* history: an administrator took a verification away

emailVars == <<row, state, sent, inbox, expired, request, proven, due, changes,
          cancelled, unticked>>

User == [email : {Nothing} \cup Emails, verified : BOOLEAN,
         deadline : {"none", "ahead", "passed"}]
State == [token : Links, email : Emails, replaces : {Nothing} \cup Emails]

ASSUME NoRecordAssumption == Nothing \notin User /\ Nothing \notin State

NoRequest == [pc |-> "idle"]
Sending == [pc : {"send"}, email : Emails, replaces : {Nothing} \cup Emails]
Wanting == [pc : {"want"}, email : {Nothing} \cup Emails]
Delivering == [pc : {"mail", "discard"}, token : Links]
Verifying == [pc : {"update", "restore"}, state : State]
Saving == [pc : {"save"}, row : User]
Deleting == [pc : {"delete"}]

EmailInit ==
  /\ \E e \in Emails, d \in {"none", "ahead"} :
       row = [email |-> e, verified |-> FALSE, deadline |-> d]
  /\ state = Nothing
  /\ sent = {} /\ inbox = {} /\ expired = {}
  /\ request = [p \in Requests |-> NoRequest]
  /\ proven = {}
  /\ due = Nothing
  /\ changes = {} /\ cancelled = {}
  /\ unticked = FALSE

history == <<proven, due, changes, cancelled, unticked>>
mail == <<state, sent, inbox, expired>>

Become(p, q) == request' = [request EXCEPT ![p] = q]

Unless(t) == IF due = t THEN Nothing ELSE due

-----------------------------------------------------------------------------
(* Edits of the row.                                                       *)

(* A verified account is not deleted for missing the deadline.             *)
Settled(r) == IF r.verified THEN [r EXCEPT !.deadline = "none"] ELSE r

\* Mutant: every edit takes the verification away.
Edited_Resets(e, emailsVerified) ==
  Settled([row EXCEPT !.email = e, !.verified = emailsVerified])

(* UpdateUserInternal on the user's own behalf.                            *)
Edited(e, emailsVerified) ==
  Settled([row EXCEPT !.email = e,
             !.verified = IF e # Nothing /\ e # row.email THEN emailsVerified ELSE @])

(* DefersEmailChange and the conditions around it.                         *)
Defers(e, required) ==
  /\ e \notin {Nothing, row.email}
  /\ required /\ row.verified /\ row.email # Nothing

(* UpdateUser by the user: the change is deferred until it is confirmed,   *)
(* or applied and followed by a link for the new address.                  *)
UpdateOwnUser(p, e, required, emailsVerified) ==
  /\ request[p] = NoRequest /\ row # Nothing
  /\ IF Defers(e, required)
       THEN Become(p, [pc |-> "want", email |-> e]) /\ UNCHANGED row
       ELSE /\ row' = Edited(e, emailsVerified)
            /\ Become(p, IF e \notin {Nothing, row.email} /\ required /\ ~row'.verified
                           THEN [pc |-> "want", email |-> Nothing] ELSE NoRequest)
  /\ proven' = IF row' # row /\ emailsVerified THEN proven \cup {e} ELSE proven
  /\ UNCHANGED <<due, changes, cancelled, unticked>>
  /\ UNCHANGED mail

(* UpdateUser by an administrator, who vouches for what they tick.         *)
UpdateUserAsAdmin(e, v) ==
  /\ row # Nothing
  /\ row' = Settled([row EXCEPT !.email = e, !.verified = v])
  /\ proven' = IF v THEN proven \cup {e} ELSE proven
  /\ unticked' = (unticked \/ (row.verified /\ ~v))
  /\ UNCHANGED <<request, due, changes, cancelled>>
  /\ UNCHANGED mail

(* UpdateUserGroups loads the user ...                                     *)
ReadForGroups(p) ==
  /\ request[p] = NoRequest /\ row # Nothing
  /\ Become(p, [pc |-> "save", row |-> row])
  /\ UNCHANGED row /\ UNCHANGED mail /\ UNCHANGED history

(* ... and saves every column of it, in a new row if it is gone by now.    *)
SaveGroups(p) ==
  /\ request[p].pc = "save"
  /\ row' = request[p].row
  /\ Become(p, NoRequest)
  /\ UNCHANGED mail /\ UNCHANGED history

(* deleteUnverifiedSignups lists the overdue accounts ...                  *)
ListOverdue(p) ==
  /\ request[p] = NoRequest /\ row # Nothing
  /\ row.deadline = "passed" /\ ~row.verified
  /\ Become(p, [pc |-> "delete"])
  /\ UNCHANGED row /\ UNCHANGED mail /\ UNCHANGED history

(* ... or, while verification is not required, clears the deadlines.       *)
ClearDeadlines ==
  /\ row # Nothing /\ row.deadline # "none"
  /\ row' = [row EXCEPT !.deadline = "none"]
  /\ UNCHANGED request /\ UNCHANGED mail /\ UNCHANGED history

(* DeleteUser looks the account up again, and nothing else.                *)
DeleteOverdue(p) ==
  /\ request[p].pc = "delete"
  /\ row' = Nothing
  /\ Become(p, NoRequest)
  /\ UNCHANGED mail /\ UNCHANGED history

PassDeadline ==
  /\ row # Nothing /\ row.deadline = "ahead"
  /\ row' = [row EXCEPT !.deadline = "passed"]
  /\ UNCHANGED request /\ UNCHANGED mail /\ UNCHANGED history

-----------------------------------------------------------------------------
(* Issuing a link.                                                         *)

(* Send and RequestEmailChange load the user, who must have an address.    *)
LoadUser(p) ==
  LET e == IF request[p].pc = "want" THEN request[p].email ELSE Nothing IN
  /\ request[p].pc \in {"idle", "want"}
  /\ row # Nothing /\ row.email # Nothing
  /\ Become(p, [pc |-> "send",
                email |-> IF e = Nothing THEN row.email ELSE e,
                replaces |-> IF e = Nothing THEN Nothing ELSE row.email])
  /\ UNCHANGED row /\ UNCHANGED mail /\ UNCHANGED history

(* The actor replaces whatever link is outstanding.                        *)
Issue(p, t) ==
  LET q == request[p] IN
  /\ q.pc = "send" /\ t \notin sent
  /\ sent' = sent \cup {t}
  /\ state' = [token |-> t, email |-> q.email, replaces |-> q.replaces]
  /\ due' = t
  /\ changes' = IF q.replaces = Nothing THEN changes ELSE changes \cup {t}
  /\ Become(p, [pc |-> "mail", token |-> t])
  /\ UNCHANGED <<row, inbox, expired, proven, cancelled, unticked>>

(* The mail arrives, is reported as failed, or both.                       *)
Deliver(p, arrives, ok) ==
  LET q == request[p] IN
  /\ q.pc = "mail"
  /\ arrives \/ ~ok
  /\ inbox' = IF arrives THEN inbox \cup ({q.token} \ expired) ELSE inbox
  /\ Become(p, IF ok THEN NoRequest ELSE [q EXCEPT !.pc = "discard"])
  /\ UNCHANGED <<row, state, sent, expired>> /\ UNCHANGED history

(* discardAfterSendFailure: only the link that could not be delivered.     *)
Discard(p) ==
  LET q == request[p] IN
  /\ q.pc = "discard"
  /\ state' = IF state # Nothing /\ state.token = q.token THEN Nothing ELSE state
  /\ due' = Unless(q.token)
  /\ Become(p, NoRequest)
  /\ UNCHANGED <<row, sent, inbox, expired, proven, changes,
                 cancelled, unticked>>

(* The state and the restoring of it end with the lifetime of the link.    *)
Expire(t) ==
  /\ t \in sent \ expired
  /\ expired' = expired \cup {t}
  /\ inbox' = inbox \ {t}
  /\ due' = Unless(t)
  /\ state' = IF state # Nothing /\ state.token = t THEN Nothing ELSE state
  /\ changes' = changes \ {t} /\ cancelled' = cancelled \ {t}
  /\ UNCHANGED <<row, sent, request, proven, unticked>>

-----------------------------------------------------------------------------
(* Using a link.                                                           *)

Taken == Nothing

(* The user follows a link they received, signed in as themselves.         *)
ConsumeLink(p, t) ==
  /\ request[p] = NoRequest
  /\ t \in inbox
  /\ state # Nothing /\ state.token = t
  /\ state' = Taken
  /\ Become(p, [pc |-> "update", state |-> state])
  /\ proven' = proven \cup {state.email}
  /\ due' = Unless(t)
  /\ UNCHANGED <<row, sent, inbox, expired, changes,
                 cancelled, unticked>>

\* Mutant: the update does not look at the address the link was sent for.
Applies_Always(s) == row # Nothing

(* The WHERE clause of Verify.                                             *)
Applies(s) ==
  /\ row # Nothing
  /\ row.email = (IF s.replaces # Nothing THEN s.replaces ELSE s.email)

Verified(s) ==
  [email |-> IF s.replaces # Nothing THEN s.email ELSE row.email,
   verified |-> TRUE, deadline |-> "none"]

(* The update finds the row, or none.                                      *)
UpdateRow(p) ==
  LET s == request[p].state IN
  /\ request[p].pc = "update"
  /\ row' = IF Applies(s) THEN Verified(s) ELSE row
  /\ Become(p, NoRequest)
  /\ UNCHANGED mail /\ UNCHANGED history

(* It fails, whether or not it reached the row; another account that has   *)
(* the address ends the link for good.                                     *)
FailUpdate(p) ==
  LET s == request[p].state IN
  /\ request[p].pc = "update"
  /\ \/ /\ row' \in {row, IF Applies(s) THEN Verified(s) ELSE row}
        /\ Become(p, [request[p] EXCEPT !.pc = "restore"])
     \/ /\ s.replaces # Nothing /\ Applies(s) /\ UNCHANGED row
        /\ Become(p, NoRequest)
  /\ UNCHANGED mail /\ UNCHANGED history

\* Mutant: a newer link is overwritten.
RestoreLink_Overwrites(p) ==
  LET s == request[p].state IN
  /\ request[p].pc = "restore"
  /\ IF s.token \notin expired
       THEN state' = s /\ due' = (IF due = Nothing THEN s.token ELSE due)
       ELSE UNCHANGED <<state, due>>
  /\ Become(p, NoRequest)
  /\ UNCHANGED <<row, sent, inbox, expired, proven, changes,
                 cancelled, unticked>>

(* restoreAfterDatabaseFailure: unless there is a newer link by now.       *)
RestoreLink(p) ==
  LET s == request[p].state IN
  /\ request[p].pc = "restore"
  /\ IF state = Nothing /\ s.token \notin expired
       THEN state' = s /\ due' = (IF due = Nothing THEN s.token ELSE due)
       ELSE UNCHANGED <<state, due>>
  /\ Become(p, NoRequest)
  /\ UNCHANGED <<row, sent, inbox, expired, proven, changes,
                 cancelled, unticked>>

\* Mutant: the outstanding change stays.
CancelledState_Kept == state

(* A link for the current address is no change and stays.                  *)
CancelledState ==
  IF state # Nothing /\ state.replaces # Nothing THEN Nothing ELSE state

Held == {request[p].state.token : p \in {x \in Requests : request[x].pc \in {"update", "restore"}}}

(* CancelEmailChange.                                                      *)
CancelEmailChange ==
  /\ state' = CancelledState
  /\ due' = IF due \in changes THEN Nothing ELSE due
  /\ cancelled' = cancelled \cup (changes \ Held)
  /\ UNCHANGED <<row, sent, inbox, expired, request, proven, changes,
                 unticked>>

(* A request ends early: the server goes down, a call fails and is logged. *)
Abandon(p) ==
  /\ request[p] # NoRequest
  /\ Become(p, NoRequest)
  /\ UNCHANGED row /\ UNCHANGED mail /\ UNCHANGED history

EmailNext ==
  \/ \E p \in Requests, e \in {Nothing} \cup Emails, required, emailsVerified \in BOOLEAN :
       UpdateOwnUser(p, e, required, emailsVerified)
  \/ \E e \in {Nothing} \cup Emails, v \in BOOLEAN : UpdateUserAsAdmin(e, v)
  \/ \E p \in Requests : ReadForGroups(p)
  \/ \E p \in Requests : SaveGroups(p)
  \/ \E p \in Requests : ListOverdue(p)
  \/ \E p \in Requests : DeleteOverdue(p)
  \/ PassDeadline
  \/ ClearDeadlines
  \/ \E p \in Requests : LoadUser(p)
  \/ \E p \in Requests, t \in Links : Issue(p, t)
  \/ \E p \in Requests, arrives, ok \in BOOLEAN : Deliver(p, arrives, ok)
  \/ \E p \in Requests : Discard(p)
  \/ \E t \in Links : Expire(t)
  \/ \E p \in Requests, t \in Links : ConsumeLink(p, t)
  \/ \E p \in Requests : UpdateRow(p)
  \/ \E p \in Requests : FailUpdate(p)
  \/ \E p \in Requests : RestoreLink(p)
  \/ CancelEmailChange
  \/ \E p \in Requests : Abandon(p)

EmailSpec == EmailInit /\ [][EmailNext]_emailVars

-----------------------------------------------------------------------------
(* Properties.                                                             *)

EmailTypeOK ==
  /\ row \in {Nothing} \cup User
  /\ state \in {Nothing} \cup State
  /\ inbox \subseteq sent /\ sent \subseteq Links /\ expired \subseteq sent
  /\ request \in [Requests -> {NoRequest} \cup Sending \cup Wanting \cup Delivering
                          \cup Verifying \cup Saving \cup Deleting]
  /\ proven \subseteq {Nothing} \cup Emails
  /\ due \in {Nothing} \cup sent
  /\ changes \subseteq sent
  /\ cancelled \subseteq changes /\ unticked \in BOOLEAN

(* An address is marked as verified only if somebody vouched for that very *)
(* address: its owner by following a link sent to it, an administrator or  *)
(* the setting.  The address may be edited while a verification is under   *)
(* way, and links of earlier addresses may still be outstanding.           *)
VerifiedIsProven ==
  row # Nothing /\ row.verified /\ row.email # Nothing => row.email \in proven

(* The link sent last works until it is used, discarded, cancelled or    *)
(* expired: neither the discarding of an older link nor the restoring of   *)
(* one that was used before takes it away.                                 *)
LatestLinkKept ==
  due # Nothing => state # Nothing /\ state.token = due

(* The link of a cancelled change stops working, unless a verification had *)
(* it when the change was cancelled.                                       *)
CancelledLinkStopsWorking == state # Nothing => state.token \notin cancelled

Sticks ==
  row # Nothing /\ row' # Nothing =>
    /\ row.verified /\ row'.email = row.email => row'.verified \/ unticked'
    /\ row.deadline = "none" => row'.deadline = "none"

(* Whoever is verified stays verified as long as their address stays, and  *)
(* a cleared deadline does not come back, unless an administrator takes    *)
(* the verification away or UpdateUserGroups writes back an old row.       *)
OnlyStaleSavesUnverify == [][~(\E p \in Requests : SaveGroups(p)) => Sticks]_emailVars

(* user_service.go:674: "A verified account is no longer deleted for       *)
(* missing the signup verification deadline".  So a deadline that was      *)
(* cleared, as every verification clears it, does not come back.           *)
ClearedDeadlineStaysAway ==
  [][row # Nothing /\ row' # Nothing /\ row.deadline = "none"
       => row'.deadline = "none"]_emailVars

(* What a link does follows what became of it: the last one works until    *)
(* something ends it, a cancelled one does not.                            *)
LinksKeepTheirWord == LatestLinkKept /\ CancelledLinkStopsWorking
=============================================================================
