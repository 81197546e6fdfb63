---------------------------- MODULE Configuration ----------------------------
(***************************************************************************)
(* The settings an administrator chooses (appconfig): the state of one     *)
(* actor, read by every replica.  The state outlives the versions of the   *)
(* program: it may come from the table of a version without actors, from a *)
(* version with switches where there are modes now, or from one that had   *)
(* fewer settings.  A replica that starts upgrades what it finds; several  *)
(* may start at once.                                                      *)
(*                                                                         *)
(* Two settings stand for all: "mode" took the place of a switch, "plain"  *)
(* is newer than some states.  Turns of the actor are atomic.              *)
(***************************************************************************)
EXTENDS Naturals

CONSTANTS
  NoConfig,   \* there is none
  Server,
  MaxTurns    \* bound on the changes of an administrator

Setting == {"mode", "plain"}
Unset == "unset"

Default == [mode |-> "disabled", plain |-> "default"]
Choice == [mode |-> {"disabled", "known", "always"}, plain |-> {"default", "other"}]

(* What a state or a legacy table may hold: of the switch, the mode and    *)
(* the plain setting, those that the version that wrote it had.            *)
Switch == {Unset, "on", "off"}
Stored == [switch : Switch, mode : {Unset} \cup Choice.mode,
           plain : {Unset} \cup Choice.plain]

ASSUME NoConfigAssumption == NoConfig \notin Stored

VARIABLES
  legacy,    \* the config_migrated row of the kv table, never changed
  state,     \* the persisted state of the actor
  server,    \* what each replica is doing; a start has read the legacy row
  chosen,    \* history: what the administrators asked for, in any version
  turns

configVars == <<legacy, state, server, chosen, turns>>

(* A switch that was on notifies of unknown browsers only.                 *)
LegacyMode(switch) == IF switch = "on" THEN "known" ELSE "disabled"

(* DecodeMsgpack: a switch counts where no mode is stored.                 *)
Decoded(s) ==
  IF s.mode = Unset /\ s.switch # Unset
  THEN [s EXCEPT !.mode = LegacyMode(s.switch)] ELSE s

OrDefault(k, value) == IF value = Unset THEN Default[k] ELSE value

\* Encoding drops the switch, which is not a field of the model any more.
Encoded(mode, plain) == [switch |-> Unset, mode |-> mode, plain |-> plain]

(* fromLegacyConfig: the defaults, then the switch, then what the table    *)
(* has.                                                                    *)
FromLegacyConfig(l) ==
  Encoded(IF l.mode # Unset THEN l.mode ELSE LegacyMode(l.switch),
          OrDefault("plain", l.plain))

ApplyDefaults(s) ==
  Encoded(OrDefault("mode", s.mode), OrDefault("plain", s.plain))

(* What the program does with a configuration; an unset one is no default. *)
Effective(s) == [k \in Setting |-> Decoded(s)[k]]

(* What an administrator meant by what an old version wrote.               *)
Meant(s) == [mode |-> OrDefault("mode", Decoded(s).mode),
             plain |-> OrDefault("plain", s.plain)]

ConfigInit ==
  \* A table, a state, or nothing; a migrated table stays where it is.
  /\ legacy \in {NoConfig} \cup Stored
  /\ state \in {NoConfig} \cup Stored
  /\ server = [s \in Server |-> "down"]
  /\ chosen = IF state # NoConfig THEN Meant(state)
              ELSE IF legacy # NoConfig THEN Meant(legacy)
              ELSE Default
  /\ turns = 0

Goes(s, to) == server' = [server EXCEPT ![s] = to]

(* LoadLegacyConfig at the start of a replica: the bootstrap data.         *)
LoadLegacyConfig(s) ==
  /\ server[s] = "down"
  /\ Goes(s, "read")
  /\ UNCHANGED <<legacy, state, chosen, turns>>

Bootstrapped_FromTable ==  \* mutant: the table counts at every start
  IF legacy # NoConfig THEN FromLegacyConfig(legacy)
  ELSE IF state # NoConfig THEN ApplyDefaults(Decoded(state))
  ELSE ApplyDefaults(Encoded(Unset, Unset))
(* Bootstrap: a state is upgraded, a table migrated if there is no state.  *)
Bootstrapped ==
  IF state # NoConfig
    THEN LET decoded == Decoded(state)
             upgraded == ApplyDefaults(decoded)
         IN  IF Effective(upgraded) = Effective(decoded) THEN state ELSE upgraded
  ELSE IF legacy # NoConfig THEN FromLegacyConfig(legacy)
  ELSE ApplyDefaults(Encoded(Unset, Unset))

Bootstrap(s) ==
  /\ server[s] = "read"
  /\ state' = Bootstrapped
  /\ Goes(s, "up")
  /\ UNCHANGED <<legacy, chosen, turns>>

(* Reading or saving the state fails, or the process stops.                *)
StopServer(s) ==
  /\ server[s] # "down"
  /\ Goes(s, "down")
  /\ UNCHANGED <<legacy, state, chosen, turns>>

Turn(s) == server[s] = "up" /\ turns < MaxTurns /\ turns' = turns + 1

Wish(k, value) == IF value = Unset THEN Default[k] ELSE value

(* UpdateAppConfig: every setting, where an empty one means its default.   *)
Replace(s, mode, plain) ==
  /\ Turn(s)
  /\ state' = ApplyDefaults(Encoded(mode, plain))
  /\ chosen' = [mode |-> Wish("mode", mode), plain |-> Wish("plain", plain)]
  /\ UNCHANGED <<legacy, server>>

(* UpdateAppConfigValues: one of them; the others as they are decoded.     *)
Update(s, k, value) ==
  /\ Turn(s)
  /\ LET set == [Effective(state) EXCEPT ![k] = OrDefault(k, value)]
     IN  state' = Encoded(set.mode, set.plain)
  /\ chosen' = [chosen EXCEPT ![k] = Wish(k, value)]
  /\ UNCHANGED <<legacy, server>>

ConfigStep ==
  \E s \in Server :
    \/ LoadLegacyConfig(s) \/ Bootstrap(s) \/ StopServer(s)
    \/ \E mode \in {Unset} \cup Choice.mode, plain \in {Unset} \cup Choice.plain :
         Replace(s, mode, plain)
    \/ \E k \in Setting : \E value \in {Unset} \cup Choice[k] : Update(s, k, value)

ConfigSpec == ConfigInit /\ [][ConfigStep]_configVars

-----------------------------------------------------------------------------
(* Whatever a version wrote and however often replicas start or are        *)
(* upgraded: a replica that is up works with what was chosen last, and     *)
(* with defaults for the rest.  No migration is applied twice.             *)
ChoicesSurvive ==
  \A s \in Server : server[s] = "up" => Effective(state) = chosen
=============================================================================
