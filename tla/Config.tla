------------------------------- MODULE Config -------------------------------
(***************************************************************************)
(* What the command line decides about a start of the program (config.rs): *)
(* which of the two programs runs, on which network, and where it keeps    *)
(* its data.  The listening address, the peers and the log level change    *)
(* nothing the other modules speak of; max_reorg_depth is parsed and used  *)
(* nowhere.                                                                *)
(***************************************************************************)
EXTENDS Naturals

CONSTANTS
  Network,    \* the Bitcoin networks
  DataDir,    \* directories that are given with --data-dir
  NotGiven    \* the option is left out

Cli == [network : Network, data_dir : DataDir \cup {NotGiven},
        command : {"nakamoto", NotGiven}]

(* Mutant: one default directory for all networks.                         *)
MutDefaultIndexDir(network) == <<"home", "nakamoto-electrs">>

(* default_index_dir: a directory of its own for each network.             *)
DefaultIndexDir(network) == <<"home", network>>

IndexDir == DataDir \cup {DefaultIndexDir(n) : n \in Network}

(* Config and NakamotoConfig, which differ in what the server needs.       *)
RunConfig == [mode : {"bridge", "nakamoto"}, network : Network, index_dir : IndexDir]

(* Cli::into_mode *)
IntoMode(cli) ==
  [mode |-> IF cli.command = "nakamoto" THEN "nakamoto" ELSE "bridge",
   network |-> cli.network,
   index_dir |-> IF cli.data_dir = NotGiven THEN DefaultIndexDir(cli.network)
                                            ELSE cli.data_dir]
=============================================================================
