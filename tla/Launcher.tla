------------------------------ MODULE Launcher ------------------------------
(***************************************************************************)
(* The start of the process: relayer-launcher.py parses the options,       *)
(* chooses the configuration files and the role; relayer.py merges the     *)
(* files, waits for the Bifrost node, registers its indices, finds the     *)
(* heights to scan from (HeightSearch) and starts the event bridge.  Any   *)
(* exception ends the process, which docker-compose starts again with      *)
(* the same options.                                                       *)
(*                                                                         *)
(* chain.py looks for the option -t in sys.argv by itself when it is       *)
(* imported, the launcher asks argparse.                                   *)
(***************************************************************************)
EXTENDS Integers

CONSTANTS
  Networks,      \* the networks, "mainnet" and "testnet"
  Options,       \* options that the operator may give
  HistoryLimit,  \* BIFROST_VALIDATOR_HISTORY_LIMIT_BLOCKS
  MaxRound,      \* bound on the round of Bifrost
  MaxStarts      \* bound on starts

VARIABLES
  argv,       \* the options given
  own,        \* network of the files that -c and -a name
  provided,   \* networks whose private file the operator has made
  phase,      \* what the process does next
  injected,   \* networks of the public and the private file merged, or <<>>
  role,       \* the role in relayer_config_global
  round,      \* the round of Bifrost
  indices,    \* the rounds for which the index is cached
  starts      \* starts of the process so far

vars == <<argv, own, provided, phase, injected, role, round, indices, starts>>

-----------------------------------------------------------------------------
(* Options.  slow-relayer and testnet are on whether they are given or not. *)

SlowOption    == TRUE
TestnetOption == TRUE
FastOption    == "-f" \in argv

\* chain_enum.
ChainEnum == IF "-t" \in argv THEN "testnet" ELSE "mainnet"

\* The network of the file that option -c or -a names, or of the default one.
ConfigFile(option) ==
  IF option \in argv THEN own ELSE IF TestnetOption THEN "testnet" ELSE "mainnet"

\* determine_relayer_role, which raises an exception if both options are on.
Role == IF SlowOption THEN "slow" ELSE IF FastOption THEN "fast" ELSE "general"

-----------------------------------------------------------------------------
(* The process. *)

CanSetUp == ~(FastOption /\ SlowOption) /\ ConfigFile("-a") \in provided

\* init_from_config_files.
Merged == <<ConfigFile("-c"), ConfigFile("-a")>>

\* setup_relayer and init_from_dicts.
Setup ==
  /\ phase = "setup" /\ CanSetUp
  /\ injected' = Merged
  /\ role' = Role
  /\ phase' = "wait"
  /\ UNCHANGED <<argv, own, provided, round, indices, starts>>

\* wait_until_node_sync, which asks again after an error or while the node is
\* behind, has got the answer; the round is read and the indices registered.
RegisterRelayerAuth ==
  /\ phase = "wait"
  /\ indices' = {n \in 1..round : round - n < HistoryLimit}
  /\ phase' = "heights"
  /\ UNCHANGED <<argv, own, provided, injected, role, round, starts>>

\* determine_latest_heights_for_each_chain, then run_eventbridge.
Run ==
  /\ phase = "heights"
  /\ phase' = "running"
  /\ UNCHANGED <<argv, own, provided, injected, role, round, indices, starts>>

\* An exception, at any time: both roles are asked for, a file or an entry of it
\* is missing, or a view call fails.
Die ==
  /\ phase # "dead"
  /\ phase' = "dead"
  /\ UNCHANGED <<argv, own, provided, injected, role, round, indices, starts>>

\* docker-compose.mainnet.yml: restart: always.
Restart ==
  /\ phase = "dead"
  /\ starts < MaxStarts
  /\ starts' = starts + 1
  /\ phase' = "setup"
  /\ injected' = <<>>
  /\ role' = "general"
  /\ indices' = {}
  /\ UNCHANGED <<argv, own, provided, round>>

NextRound ==
  /\ round < MaxRound
  /\ round' = round + 1
  /\ UNCHANGED <<argv, own, provided, phase, injected, role, indices, starts>>

Init ==
  /\ argv \in SUBSET Options
  /\ own \in Networks
  /\ provided \in SUBSET Networks
  /\ phase = "setup"
  /\ injected = <<>>
  /\ role = "general"
  /\ round = 1
  /\ indices = {}
  /\ starts = 1

Next == Setup \/ RegisterRelayerAuth \/ Run \/ Die \/ Restart \/ NextRound

Spec == Init /\ [][Next]_vars

-----------------------------------------------------------------------------
(* Properties. *)

\* README.md says of "configs/entity.relayer.json" and
\* "configs/entity.relayer.private.json" that they "are merged and injected into
\* the relayer".  It launches one with -k, -s, -p and -l only (setup_relayer).
\* Then, if the operator has made the private file, these are the files, and their
\* network is the one whose chain ids the process works with.
InjectsDocumentedFiles ==
  phase = "running" /\ argv \subseteq {"-s"} /\ "mainnet" \in provided =>
    injected = <<"mainnet", "mainnet">> /\ ChainEnum = "mainnet"
=============================================================================
