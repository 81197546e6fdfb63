----------------------------- MODULE Credentials -----------------------------
(***************************************************************************)
(* How a user gets an account, and what they sign in with afterwards:      *)
(* signups, login codes, passkeys and API keys.  They share the users and  *)
(* no other state; each behaviour is about one of them.                    *)
(***************************************************************************)
EXTENDS OneTimeAccess, Passkeys, ApiKeys, Signup

VARIABLE credential

allVars == <<vars, passkeyVars, apiKeyVars, signupVars, credential>>

CredentialsInit ==
  /\ Init /\ PasskeyInit /\ ApiKeyInit /\ SignupInit
  /\ credential \in {"code", "passkey", "key", "account"}
  \* What was frozen matters to signups only.
  /\ credential # "account" => \A t \in Migrated : frozen[t].used = 0 /\ frozen[t].limit = MaxLimit

CodeStep ==
  credential = "code" /\ Next /\ UNCHANGED <<passkeyVars, apiKeyVars, signupVars, credential>>
PasskeyTurn ==
  credential = "passkey" /\ PasskeyStep /\ UNCHANGED <<vars, apiKeyVars, signupVars, credential>>
KeyStep ==
  credential = "key" /\ ApiKeyStep /\ UNCHANGED <<vars, passkeyVars, signupVars, credential>>
AccountStep ==
  credential = "account" /\ SignupNext /\ UNCHANGED <<vars, passkeyVars, apiKeyVars, credential>>

CredentialsNext == CodeStep \/ PasskeyTurn \/ KeyStep \/ AccountStep

CredentialsSpec == CredentialsInit /\ [][CredentialsNext]_allVars
=============================================================================
