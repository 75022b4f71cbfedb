------------------------------- MODULE Config -------------------------------
(***************************************************************************)
(* The configuration of the two binaries (server/config/config.go and      *)
(* projector.go): every key starts at its default and is overlaid by the   *)
(* YAML file, the environment and the flags, in that order, then the whole *)
(* is validated and refused or accepted.  An operator writes keys into the *)
(* layers and starts a binary.                                             *)
(*                                                                         *)
(* The keys kept are the ones a validation relates to each other, and one  *)
(* of each way a value is read.  A value as written is a sequence: <<>>    *)
(* when it does not parse as its key's type, <<v>> when it does; a text    *)
(* set to nothing is <<"">>.  Durations are integers, Second of them in a  *)
(* second.                                                                 *)
(***************************************************************************)
EXTENDS Integers, FiniteSets

CONSTANTS
  Second,        \* one second in the units of the durations
  MaxTickRate,   \* the highest sim.tick_rate accepted (100 in the code)
  ConfigDefaults,\* the value of each key before any layer
  WrittenLayers,       \* for each key, what an operator may write for it
  Deployed,      \* what the deployment's environment sets
  MaxConfigWrites      \* keys an operator writes besides

VARIABLES
  layers,        \* what the file, the environment and the flags set
  path,          \* the file ANDARA_CONFIG and the command line name
  startedWith        \* what each binary made of it: nothing yet, a refusal or a configuration

configVars == <<layers, path, startedWith>>

NoValue == "none"
NotStarted == [is |-> "no"]
TurnedDown == [is |-> "refused"]

-----------------------------------------------------------------------------
(* The keys, by the section of the file that holds them.                    *)

ServingKeys == {"packs", "strict", "brokers", "tls", "protoMin", "protoMax"}
AccountKeys == {"ttl", "issuer", "jwks", "grace", "max", "rto"}
SimKeys     == {"rate", "budget", "retry", "retryMax", "deadline", "idem",
                "buffer", "window", "eventRate", "interval", "upload", "store", "bucket"}

\* validate-only has no file key and no variable.
FileKeys == ServingKeys \cup AccountKeys \cup SimKeys
ConfigKeys     == FileKeys \cup {"validateOnly"}

\* The keys the projector has a flag for.
ProjectorFlags == {"packs", "brokers", "store", "bucket"}

\* The keys whose values are counts and durations.
NumberKeys == {"packs", "brokers", "protoMin", "protoMax"} \cup (AccountKeys \ {"issuer", "jwks"})
              \cup (SimKeys \ {"store", "bucket"})

\* A number as written: it parses as one, or not at all.
WrittenNumber(raw) == raw = <<>> \/ (DOMAIN raw = {1} /\ raw[1] \in Int)

ASSUME ConfigAssumption ==
  /\ Second \in Nat \ {0} /\ MaxTickRate \in Nat
  /\ DOMAIN Deployed \subseteq FileKeys
  /\ \A k \in NumberKeys :
       /\ ConfigDefaults[k] \in Int
       /\ \A raw \in WrittenLayers[k] : WrittenNumber(raw)
       /\ k \in DOMAIN Deployed => WrittenNumber(Deployed[k])

-----------------------------------------------------------------------------
(* The overlay of one layer.                                                *)

\* A boolean of the environment that does not parse is false; anything else
\* that does not parse refuses the start.
Lenient(layer, k) == layer = "env" /\ k = "strict"

CanRead(layer, keys) ==
  \A k \in keys \cap DOMAIN layers[layer] : layers[layer][k] # <<>> \/ Lenient(layer, k)

\* A key the layer sets takes its value there, set to nothing included.
Overlay(c, layer, keys) ==
  [k \in ConfigKeys |->
     IF k \in keys /\ k \in DOMAIN layers[layer]
       THEN IF layers[layer][k] = <<>> THEN FALSE ELSE layers[layer][k][1]
       ELSE c[k]]

\* peekConfigPath: the variable, else the first --config; -config, which the
\* flag parser takes, is not looked for.
ConfigPath == IF path.env # NoValue THEN path.env
              ELSE IF path.dashes = 2 THEN path.flag ELSE NoValue

\* applyFile, section by section.  Only the file "A" can be read.
FileServing(c) == Overlay(c, "file", ServingKeys)
FileAccounts(c) == Overlay(c, "file", AccountKeys)
FileSim(c) == Overlay(c, "file", SimKeys)

FileReadable == ConfigPath # NoValue => ConfigPath = "A" /\ CanRead("file", FileKeys)

ApplyFile(c) == IF ConfigPath = NoValue THEN c ELSE FileSim(FileAccounts(FileServing(c)))

\* applyEnv, in the order of its blocks.
EnvServing(c) == Overlay(c, "env", ServingKeys \cup {"deadline", "idem"})
EnvAccounts(c) == Overlay(c, "env", AccountKeys \cup {"store", "bucket", "interval", "upload"})
EnvSim(c) == Overlay(c, "env", SimKeys \ {"deadline", "idem", "store", "bucket", "interval", "upload"})

\* The file laid over the environment, a mutant of ApplyEnv.
ApplyEnvUnder(c) == ApplyFile(EnvSim(EnvAccounts(EnvServing(c))))

ApplyEnv(c) == EnvSim(EnvAccounts(EnvServing(c)))

ApplyFlags(c, keys) == Overlay(c, "flags", keys)

-----------------------------------------------------------------------------
(* What makes a configuration acceptable.                                   *)

TickInterval(c) == Second \div c.rate

\* Rounded down, a mutant of LinkdeadTicks.
LinkdeadTicksDown(c, d) == d \div TickInterval(c)

\* LinkdeadTicks: a duration in ticks, rounded up.
LinkdeadTicks(c, d) == (d + TickInterval(c) - 1) \div TickInterval(c)

ValidContent(c) == c.packs > 0

ValidGateway(c) ==
  /\ c.validateOnly \/ c.tls # ""
  /\ c.protoMin >= 1 /\ c.protoMin <= c.protoMax

ValidAuth(c) ==
  /\ c.validateOnly \/ c.brokers > 0
  /\ c.ttl > 0 /\ c.max > 0
  /\ (c.issuer = "") = (c.jwks = "")

\* The budget against the tick interval, the retries against each other, the
\* idempotency window against the deadline it must outlast.
ValidSim(c) ==
  /\ c.rate \in 1..MaxTickRate
  /\ c.budget > 0 /\ c.budget <= TickInterval(c)
  /\ c.retry >= 1 /\ c.retryMax >= c.retry
  /\ c.deadline > 0 /\ c.idem > c.deadline
  /\ c.buffer >= 1 /\ c.window >= c.buffer

\* The four relations of ADR-0006, the window as Events over whole seconds.
ValidLinkdead(c) ==
  /\ c.grace > 0 /\ c.max > 0 /\ c.rto > 0 /\ c.eventRate >= 1
  /\ c.max >= c.grace
  /\ c.grace > c.rto
  /\ c.window * Second >= c.max * c.eventRate
  /\ c.ttl > c.max

ValidSnapshot(c) ==
  /\ c.store \in {"fs", "s3"}
  /\ c.store = "s3" => c.bucket # ""
  /\ c.interval >= 0 /\ c.upload > 0
  /\ c.interval > 0 => c.upload <= c.interval

ValidServer(c) == /\ ValidContent(c) /\ ValidGateway(c) /\ ValidAuth(c)
                  /\ ValidSim(c) /\ ValidLinkdead(c) /\ ValidSnapshot(c)

ValidProjector(c) == /\ c.packs > 0 /\ c.brokers > 0
                     /\ c.store \in {"fs", "s3"}
                     /\ c.store = "s3" => c.bucket # ""

-----------------------------------------------------------------------------
(* The two binaries.                                                        *)

\* Parse: a layer that does not parse, or a configuration that is not
\* acceptable, refuses the start.
Parse ==
  LET c == ApplyFlags(ApplyEnv(ApplyFile(ConfigDefaults)), ConfigKeys) IN
  IF FileReadable /\ CanRead("env", FileKeys) /\ CanRead("flags", ConfigKeys) /\ ValidServer(c)
    THEN [is |-> "accepted", conf |-> c] ELSE TurnedDown

\* ParseProjector: the same defaults, file and environment; a flag it does
\* not have refuses the start.
ParseProjector ==
  LET c == ApplyFlags(ApplyEnv(ApplyFile(ConfigDefaults)), ProjectorFlags) IN
  IF /\ FileReadable /\ CanRead("env", FileKeys) /\ CanRead("flags", ProjectorFlags)
     /\ DOMAIN layers.flags \subseteq ProjectorFlags
     /\ ValidProjector(c)
    THEN [is |-> "accepted", conf |-> c] ELSE TurnedDown

-----------------------------------------------------------------------------

Paths == {[env |-> NoValue, flag |-> NoValue, dashes |-> 2], [env |-> "A", flag |-> "B", dashes |-> 2],
          [env |-> NoValue, flag |-> "A", dashes |-> 1], [env |-> NoValue, flag |-> "A", dashes |-> 2],
          [env |-> NoValue, flag |-> "B", dashes |-> 2]}

Unset == [k \in {} |-> <<>>]

ConfigInit ==
  /\ layers = [file |-> Unset, env |-> Deployed, flags |-> Unset]
  /\ path \in Paths
  /\ startedWith = [server |-> NotStarted, projector |-> NotStarted]

\* Keys written by the operator, the deployment's own left out.
WrittenKeys == Cardinality(DOMAIN layers.file) + Cardinality(DOMAIN layers.flags)
             + Cardinality({k \in DOMAIN layers.env : k \notin DOMAIN Deployed
                                                      \/ layers.env[k] # Deployed[k]})

\* An operator sets a key in a layer that has one for it.
Write(layer, k, raw) ==
  /\ startedWith.server.is = "no"
  /\ WrittenKeys < MaxConfigWrites
  /\ k \in (IF layer = "flags" THEN ConfigKeys ELSE FileKeys)
  /\ k \in DOMAIN layers[layer] => layer = "env" /\ k \in DOMAIN Deployed
  /\ layers' = [layers EXCEPT ![layer] =
                  [j \in DOMAIN @ \cup {k} |-> IF j = k THEN raw ELSE @[j]]]
  /\ UNCHANGED <<path, startedWith>>

StartServer ==
  /\ startedWith.server.is = "no"
  /\ startedWith' = [startedWith EXCEPT !.server = Parse]
  /\ UNCHANGED <<layers, path>>

StartProjector ==
  /\ startedWith.server.is # "no" /\ startedWith.projector.is = "no"
  /\ startedWith' = [startedWith EXCEPT !.projector = ParseProjector]
  /\ UNCHANGED <<layers, path>>

ConfigNext ==
  \/ \E layer \in {"file", "env", "flags"}, k \in ConfigKeys : \E raw \in WrittenLayers[k] : Write(layer, k, raw)
  \/ StartServer
  \/ StartProjector

ConfigSpec == ConfigInit /\ [][ConfigNext]_configVars

-----------------------------------------------------------------------------

ConfigTypeOK ==
  /\ \A l \in DOMAIN layers : DOMAIN layers[l] \subseteq ConfigKeys
  /\ path \in Paths
  /\ \A b \in DOMAIN startedWith : startedWith[b].is \in {"no", "refused", "accepted"}

Accepted(b) == startedWith[b].is = "accepted"

\* The layers that set k, given the file that is read.
Setting(k, flags) == {l \in {"file", "env", "flags"} :
  /\ k \in DOMAIN layers[l]
  /\ l = "file" => path.env # NoValue \/ (path.flag # NoValue /\ path.dashes = 2)
  /\ l = "flags" => flags}

\* "Parse resolves flag > env > file > default": in an accepted
\* configuration every key has the value of the highest layer that sets it,
\* a value set to nothing or to zero included, whatever order the blocks of
\* applyFile and applyEnv come in, and its default when none does.
HighestLayerWins ==
  \A b \in {"server", "projector"} : Accepted(b) =>
    \A k \in ConfigKeys :
      LET set == Setting(k, b = "server" \/ k \in ProjectorFlags)
          top == IF "flags" \in set THEN "flags" ELSE IF "env" \in set THEN "env" ELSE "file"
          v   == startedWith[b].conf[k]
      IN IF set = {} THEN v = ConfigDefaults[k]
         ELSE IF layers[top][k] = <<>> THEN v = FALSE
         ELSE v = layers[top][k][1]

\* What the relations are for, in the units the running server uses: a
\* Character whose Session dropped at the crash is still there when recovery
\* has taken all its time, the grace in ticks is within the ceiling in
\* ticks, a token outlives the last full tick of the ceiling and the resume
\* window holds the Events of those ticks, and a tick's work budget and a
\* produce's deadline end before what they must end before.
RunsAsConfigured ==
  Accepted("server") =>
    LET c     == startedWith.server.conf
        per   == TickInterval(c)
        grace == LinkdeadTicks(c, c.grace)
        max   == LinkdeadTicks(c, c.max)
    IN /\ per >= c.budget
       /\ grace * per > c.rto
       /\ 1 <= grace /\ grace <= max
       /\ c.ttl > (max - 1) * per
       /\ c.window * Second >= (max - 1) * per * c.eventRate
       /\ c.idem > c.deadline
=============================================================================
