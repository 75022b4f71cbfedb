------------------------------ MODULE MCServing -------------------------------
(***************************************************************************)
(* What a player and an operator meet: the process and its configuration,  *)
(* the gateway, the accounts, the roster, the bindings, the Partition's    *)
(* health, the Event stream and the player's client.  The parts are checked one at a time: a    *)
(* behaviour follows the part it starts with, by that part's own           *)
(* specification, and the others stay as they begin.                       *)
(***************************************************************************)
EXTENDS Bindings, PartitionHealth, Roster, Stream, Gateway, Accounts, Boot, Config,
  Play, TLC

VARIABLE part   \* the part a behaviour follows

partVars == <<bindVars, healthVars, rosterVars, streamVars, gatewayVars, accountVars,
              bootVars, configVars, playVars>>
vars == <<part, partVars>>

Parts == {"bindings", "health", "roster", "stream", "gateway", "accounts", "boot", "config",
          "play"}

-------------------------------------------------------------------------------
(* The client has one request on its way that it no longer waits for, and a   *)
(* client that has left, or is about to, submits nothing more.                *)
MCBounded ==
  /\ Cardinality(onTheWay) <= 1 /\ ~left /\ streamAt # "fatal"

MCSymmetry == Permutations(Characters) \cup Permutations(Sessions)

MCDefaults ==
  [packs |-> 1, strict |-> FALSE, brokers |-> 0, tls |-> "", protoMin |-> 1, protoMax |-> 1,
   ttl |-> 14, issuer |-> "", jwks |-> "", grace |-> 8, max |-> 10, rto |-> 6,
   rate |-> 2, budget |-> 3, retry |-> 2, retryMax |-> 2, deadline |-> 2, idem |-> 4,
   buffer |-> 2, window |-> 4, eventRate |-> 2, interval |-> 6, upload |-> 3,
   store |-> "fs", bucket |-> "", validateOnly |-> FALSE]

(* <<>> stands for a text that does not parse. *)
MCWrittenLayers ==
  [packs |-> {<<0>>}, strict |-> {<<>>, <<TRUE>>}, brokers |-> {<<0>>},
   tls |-> {<<"">>}, protoMin |-> {<<2>>}, protoMax |-> {<<2>>},
   ttl |-> {<<11>>}, issuer |-> {<<"i">>}, jwks |-> {<<"j">>},
   grace |-> {<<7>>, <<11>>, <<>>}, max |-> {<<7>>, <<13>>}, rto |-> {<<7>>},
   rate |-> {<<4>>, <<0>>}, budget |-> {<<1>>}, retry |-> {<<3>>},
   retryMax |-> {<<1>>, <<4>>}, deadline |-> {<<4>>}, idem |-> {<<5>>, <<2>>},
   buffer |-> {<<5>>}, window |-> {<<3>>, <<6>>}, eventRate |-> {<<3>>},
   interval |-> {<<0>>, <<2>>}, upload |-> {<<7>>}, store |-> {<<"s3">>, <<"tape">>},
   bucket |-> {<<"b">>, <<"">>}, validateOnly |-> {<<TRUE>>}]

MCDeployed == [brokers |-> <<1>>, tls |-> <<"t">>]

-------------------------------------------------------------------------------
Init ==
  /\ part \in Parts
  /\ BindingsInit /\ HealthInit /\ RosterInit /\ StreamInit /\ AccountsInit
  /\ PlayInit
  /\ GatewayInit /\ (part = "gateway" \/ ~noContent)
  /\ BootInit    /\ (part = "boot" \/ spawnKnown)
  /\ ConfigInit  /\ (part = "config" \/ path = CHOOSE p \in Paths : TRUE)

Next ==
  \/ /\ part = "bindings" /\ BindingsNext
     /\ UNCHANGED part /\ UNCHANGED <<healthVars, rosterVars, streamVars, gatewayVars>>
     /\ UNCHANGED <<accountVars, bootVars, configVars, playVars>>
  \/ /\ part = "health" /\ HealthNext
     /\ UNCHANGED part /\ UNCHANGED <<bindVars, rosterVars, streamVars, gatewayVars>>
     /\ UNCHANGED <<accountVars, bootVars, configVars, playVars>>
  \/ /\ part = "roster" /\ RosterNext
     /\ UNCHANGED part /\ UNCHANGED <<bindVars, healthVars, streamVars, gatewayVars>>
     /\ UNCHANGED <<accountVars, bootVars, configVars, playVars>>
  \/ /\ part = "stream" /\ StreamNext
     /\ UNCHANGED part /\ UNCHANGED <<bindVars, healthVars, rosterVars, gatewayVars>>
     /\ UNCHANGED <<accountVars, bootVars, configVars, playVars>>
  \/ /\ part = "gateway" /\ GatewayNext
     /\ UNCHANGED part /\ UNCHANGED <<bindVars, healthVars, rosterVars, streamVars>>
     /\ UNCHANGED <<accountVars, bootVars, configVars, playVars>>
  \/ /\ part = "accounts" /\ AccountsNext
     /\ UNCHANGED part /\ UNCHANGED <<bindVars, healthVars, rosterVars, streamVars>>
     /\ UNCHANGED <<gatewayVars, bootVars, configVars, playVars>>
  \/ /\ part = "boot" /\ BootNext
     /\ UNCHANGED part /\ UNCHANGED <<bindVars, healthVars, rosterVars, streamVars>>
     /\ UNCHANGED <<gatewayVars, accountVars, configVars, playVars>>
  \/ /\ part = "config" /\ ConfigNext
     /\ UNCHANGED part /\ UNCHANGED <<bindVars, healthVars, rosterVars, streamVars>>
     /\ UNCHANGED <<gatewayVars, accountVars, bootVars, playVars>>
  \/ /\ part = "play" /\ PlayNext
     /\ UNCHANGED part /\ UNCHANGED <<bindVars, healthVars, rosterVars, streamVars>>
     /\ UNCHANGED <<gatewayVars, accountVars, bootVars, configVars>>

Spec == Init /\ [][Next]_vars

-------------------------------------------------------------------------------
(* The properties, a part at a time; what each conjunct says stands where it  *)
(* is defined.  SeesWhole and HealthyClientKept are checked as they are.      *)

(* Every part's state keeps its type, through faults, restarts and races. *)
ServingTypeOK ==
  CASE part = "bindings" -> BindingsTypeOK
    [] part = "health" -> HealthTypeOK
    [] part = "roster" -> RosterTypeOK
    [] part = "stream" -> StreamTypeOK
    [] part = "gateway" -> GatewayTypeOK
    [] part = "accounts" -> AccountsTypeOK
    [] part = "boot" -> BootTypeOK
    [] part = "config" -> ConfigTypeOK
    [] part = "play" -> PlayTypeOK

(* Who plays which Character (server/roster, server/ingress/bindings.go): the *)
(* live flag is owned by someone who will free it; a Character that is not    *)
(* active has no flag, no switch to give it one and, with no produce failed,  *)
(* no body, and a hold left linkdead has its body, unless a record lands that *)
(* nobody answers for or a switch outlives its flag (muddied); a Command that *)
(* waits for an arrival waits for its own transit.                            *)
RosterSafe ==
  /\ part = "roster" => FlagOwned /\ NeverLiveDeleted /\ HoldHasBody
  /\ part = "bindings" => HoldIsItsOwn

(* Sessions at both ends.  The gateway (server/gateway): a Session outlives    *)
(* neither its connection nor its own release, the gauge follows the map, and *)
(* a call cut by a drain is told of the drain.  The client (admin/cli): a     *)
(* line is taken once however often it is retried and the Session replaced,   *)
(* what is called not sent was not, and only what may come is waited for.     *)
SessionsSafe ==
  /\ part = "gateway" => NoneLeftBehind /\ GaugeAgrees /\ DrainSaysSo /\ CloseMeansReleased
  /\ part = "play" => LineTakenOnce /\ NotSentIsNotTaken /\ AwaitsWhatMayCome /\ PromptWillCome

(* The accounts (server/auth): a secret is redeemed once, a reserved name     *)
(* stays its Character's, and, once the store was opened with an active       *)
(* Operator, one remains, across restarts and appends that fail.              *)
AccountsSafe == part = "accounts" => SpentOnce /\ NamesForGood /\ OperatorRemains

(* The process (cmd, server/boot, server/config): readiness and the exit code *)
(* tell the truth, and both binaries run as the layers say.                   *)
ProcessSafe ==
  /\ part = "boot" => ReadyTruthful /\ ExitTruthful
  /\ part = "config" => HighestLayerWins /\ RunsAsConfigured
===============================================================================
