------------------------------- MODULE ApiKeys -------------------------------
(***************************************************************************)
(* API keys (backend/internal/apikey): one row, its renewals and its       *)
(* revocation, the daily job that announces its expiry, and the user of    *)
(* the static key.  A renewal reads the row and saves it without a lock;   *)
(* the job lists rows, sends mails, and marks each row later.              *)
(***************************************************************************)
EXTENDS Naturals

CONSTANTS
  Token,           \* values of keys
  Renewal,         \* renewals at work
  Window,          \* how many days ahead an expiry is announced
  Validity,        \* lifetimes that are asked for, in days
  MaxDay,
  NoRow

ASSUME ApiKeyAssumption ==
  /\ Validity \subseteq Nat \ {0} /\ {Window, MaxDay} \subseteq Nat
  /\ NoRow \notin [token : Token, expires : Nat, marked : BOOLEAN, used : BOOLEAN]

VARIABLES
  day,
  keyRow,       \* the row
  renewals,     \* renewal -> the expired row it has read
  job,          \* the daily job
  spentTokens,  \* history: tokens that were handed out
  announced,    \* history: tokens whose expiry a mail announced
  reached,      \* history: tokens of a row that a run of the job has dealt with
  overtaken,    \* history: tokens of a row the job marked with an older list
  dead,         \* history: tokens that were replaced or revoked
  staticKey, staticUser

apiKeyVars == <<day, keyRow, renewals, job, spentTokens, announced, reached,
                overtaken, dead, staticKey, staticUser>>
staticVars == <<staticKey, staticUser>>

KeyRow(t, e) == [token |-> t, expires |-> e, marked |-> FALSE, used |-> FALSE]
Quiet == [at |-> "quiet"]
Reading(row) == [at |-> "reading", row |-> row]
Mailing(row) == [at |-> "mailing", row |-> row]
Marking(row) == [at |-> "marking", row |-> row]

(* CreateApiKey.  Another key is another row, also after a revocation.     *)
CreateApiKey(t, days) ==
  /\ spentTokens = {}
  /\ keyRow' = KeyRow(t, day + days)
  /\ spentTokens' = spentTokens \cup {t}
  /\ UNCHANGED <<day, renewals, job, announced, reached, overtaken, dead, staticVars>>

(* RenewApiKey reads a row that has expired...                             *)
ReadForRenewal(r) ==
  /\ renewals[r] = Quiet
  /\ keyRow # NoRow /\ keyRow.expires <= day
  /\ renewals' = [renewals EXCEPT ![r] = Reading(keyRow)]
  /\ UNCHANGED <<day, keyRow, job, spentTokens, announced, reached, overtaken,
                 dead, staticVars>>

\* Mutant: the mark of the row stays.
Renewed_Marked(row, t, e) == [row EXCEPT !.token = t, !.expires = e]

\* Mutant: the key keeps its value.
Renewed_SameToken(row, t, e) == [row EXCEPT !.expires = e, !.marked = FALSE]

Renewed(row, t, e) == [row EXCEPT !.token = t, !.expires = e, !.marked = FALSE]

Replaced(t) == IF keyRow = NoRow THEN {} ELSE {keyRow.token} \ {t}

(* ... and saves it whole, inserting it when it is gone.                   *)
RenewApiKey(r, t, days) ==
  /\ renewals[r].at = "reading" /\ t \notin spentTokens
  /\ dead' = dead \cup Replaced(t)
  /\ keyRow' = Renewed(renewals[r].row, t, day + days)
  /\ spentTokens' = spentTokens \cup {t}
  /\ renewals' = [renewals EXCEPT ![r] = Quiet]
  /\ UNCHANGED <<day, job, announced, reached, overtaken, staticVars>>

AbandonRenewal(r) ==
  /\ renewals[r].at = "reading"
  /\ renewals' = [renewals EXCEPT ![r] = Quiet]
  /\ UNCHANGED <<day, keyRow, job, spentTokens, announced, reached, overtaken,
                 dead, staticVars>>

RevokeApiKey ==
  /\ keyRow # NoRow /\ keyRow' = NoRow
  /\ dead' = dead \cup {keyRow.token}
  /\ UNCHANGED <<day, renewals, job, spentTokens, announced, reached,
                 overtaken, staticVars>>

(* ValidateApiKey updates the row it finds, which has not expired.         *)
ValidateApiKey(t) ==
  /\ keyRow # NoRow /\ keyRow.token = t /\ keyRow.expires > day
  /\ keyRow' = [keyRow EXCEPT !.used = TRUE]
  /\ UNCHANGED <<day, renewals, job, spentTokens, announced, reached,
                 overtaken, dead, staticVars>>

(***************************************************************************)
(* checkAndNotifyExpiringAPIKeys.                                          *)
(***************************************************************************)
Expiring == keyRow # NoRow /\ keyRow.expires > day /\ keyRow.expires <= day + Window

ListExpiringApiKeys ==
  /\ job = Quiet /\ Expiring /\ ~keyRow.marked
  /\ job' = Mailing(keyRow)
  /\ UNCHANGED <<day, keyRow, renewals, spentTokens, announced, reached,
                 overtaken, dead, staticVars>>

SendAPIKeyExpiringSoon ==
  /\ job.at = "mailing"
  /\ announced' = announced \cup {job.row.token}
  /\ job' = Marking(job.row)
  /\ UNCHANGED <<day, keyRow, renewals, spentTokens, reached, overtaken, dead,
                 staticVars>>

\* A run of the job finds the row marked and leaves it out.
PassOverMarkedKey ==
  /\ job = Quiet /\ Expiring /\ keyRow.marked
  /\ reached' = reached \cup {keyRow.token}
  /\ UNCHANGED <<day, keyRow, renewals, job, spentTokens, announced, overtaken, dead,
                 staticVars>>

(* The mark goes to the row whatever has become of it.                     *)
MarkExpirationEmailSent ==
  /\ job.at = "marking"
  /\ IF keyRow = NoRow THEN UNCHANGED <<keyRow, overtaken>>
     ELSE /\ keyRow' = [keyRow EXCEPT !.marked = TRUE]
          /\ overtaken' = IF keyRow.token # job.row.token
                          THEN overtaken \cup {keyRow.token} ELSE overtaken
  /\ reached' = reached \cup {job.row.token}
  /\ job' = Quiet
  /\ UNCHANGED <<day, renewals, spentTokens, announced, dead, staticVars>>

(* A mail or a mark fails, or the process ends.                            *)
FailJob ==
  /\ job # Quiet /\ job' = Quiet
  /\ UNCHANGED <<day, keyRow, renewals, spentTokens, announced, reached,
                 overtaken, dead, staticVars>>

(***************************************************************************)
(* The static key of the environment.                                      *)
(***************************************************************************)
InitStaticApiKeyUser ==
  /\ staticKey /\ staticUser' = TRUE
  /\ UNCHANGED <<day, keyRow, renewals, job, spentTokens, announced, reached,
                 overtaken, dead, staticKey>>

(* newService: the process starts with another environment.                *)
RestartWith(present) ==
  /\ staticKey' = present
  /\ staticUser' = (staticUser /\ present)
  /\ job' = Quiet /\ renewals' = [r \in Renewal |-> Quiet]
  /\ UNCHANGED <<day, keyRow, spentTokens, announced, reached, overtaken, dead>>

Day ==
  /\ day < MaxDay /\ day' = day + 1
  /\ UNCHANGED <<keyRow, renewals, job, spentTokens, announced, reached,
                 overtaken, dead, staticVars>>

ApiKeyInit ==
  /\ day = 0 /\ keyRow = NoRow /\ renewals = [r \in Renewal |-> Quiet]
  /\ job = Quiet /\ spentTokens = {} /\ announced = {} /\ reached = {}
  /\ overtaken = {} /\ dead = {} /\ staticKey = FALSE /\ staticUser = FALSE

ApiKeyStep ==
  \/ \E t \in Token, days \in Validity : CreateApiKey(t, days)
  \/ \E r \in Renewal : ReadForRenewal(r)
  \/ \E r \in Renewal, t \in Token, days \in Validity : RenewApiKey(r, t, days)
  \/ \E r \in Renewal : AbandonRenewal(r)
  \/ RevokeApiKey
  \/ \E t \in Token : ValidateApiKey(t)
  \/ ListExpiringApiKeys
  \/ PassOverMarkedKey
  \/ SendAPIKeyExpiringSoon
  \/ MarkExpirationEmailSent
  \/ FailJob
  \/ InitStaticApiKeyUser
  \/ \E present \in BOOLEAN : RestartWith(present)
  \/ Day

(* A value of a key that was replaced or revoked never works again, also   *)
(* when a stale renewal brings a revoked key back: it has a new value.     *)
DeadTokensStayDead == keyRow # NoRow => keyRow.token \notin dead

(* A run of the job that meets a key in the days before its expiry, and    *)
(* whose mail does not fail, leaves its present value announced: the mark  *)
(* of an earlier value does not make the run pass over it.  The exception  *)
(* is a run that listed the row before the key expired and was renewed: it *)
(* marks the new value too, which later runs then leave out unannounced.   *)
NoExpiryIsPassedOver == reached \subseteq announced \cup overtaken

(* What comes of a renewal: the old value is dead for good, and the mark   *)
(* set for it does not silence the notice of the new one.  Nothing here    *)
(* says that a run of the job comes before the key expires.                *)
RenewalIsComplete == DeadTokensStayDead /\ NoExpiryIsPassedOver
=============================================================================
