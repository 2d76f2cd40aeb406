---------------------------- MODULE NetworkParts -----------------------------
(* The two components of MCParts that face the peers, which share no state:  *)
(* packets over a connection, and what the node tells and answers its peers. *)
(* Apart from the other six, so that theorems about them see no more.        *)
EXTENDS Integers, Sequences

CONSTANTS
  None, Torn, Main,
  Threads,            \* threads of the client
  Magic, Data,        \* bytes of a stream
  Packets, MaxLength, Patience, MaxSent, MaxTimeouts,                  \* Stream
  Peers, Objs, Own,   \* Serving: connections, hashes of objects, ours among them
  RamMax, BatchMax, RowsMax, BlobsMax

VARIABLES
  holder, rest, wire, open, phase, buffer, header, silent, established, begun,
  failures, dropped, handled,                                        \* Stream
  known, ram, batch, flushing, db, alive, up, greeted, told, has, rows, wanted, found,
  spc, obj, targets, denied                                          \* Serving

streamVars == <<holder, rest, wire, open, phase, buffer, header, silent, established, begun,
                failures, dropped, handled>>
serveVars == <<known, ram, batch, flushing, db, alive, up, greeted, told, has, rows, wanted,
               found, spc, obj, targets, denied>>

Framing == INSTANCE Stream WITH
  Writers <- Threads, NoWriter <- None, NoSum <- Torn, MaxFailures <- MaxTimeouts,
  lost <- dropped

Sharing == INSTANCE Serving WITH
  NoObj <- None, Maint <- Main, pc <- spc

ASSUME NetworkAssumption ==
  Framing!StreamAssumption /\ Sharing!ServingAssumption
=============================================================================
