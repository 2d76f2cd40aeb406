------------------------------- MODULE Stream -------------------------------
(***************************************************************************)
(* Packets over one direction of a connection (net/peer.py, net/mock.py    *)
(* aside): threads write under write_lock and may fail in the middle of a  *)
(* packet (the socket's timeout holds for writes, and the callers in       *)
(* net/manager.py keep the connection), the other side reads a header and  *)
(* then a payload, in pieces, and may time out between two pieces.         *)
(*                                                                         *)
(* A header is two tokens, the magic number and [command, length, sum]; a  *)
(* payload is a sequence of data tokens, one of which looks like the magic *)
(* number. The checksum is the payload: no two payloads share one, and no  *)
(* payload holds a whole header.                                           *)
(***************************************************************************)
EXTENDS Naturals, SequencesExt

CONSTANTS
  Writers,     \* threads that write to the connection
  Packets,     \* [command, payload] records
  Magic,       \* the first four bytes of a header
  Data,        \* any other bytes
  NoSum,       \* a checksum that fits nothing
  NoWriter,
  MaxLength,   \* the longest payload a header may announce
  Patience,    \* 3: silent reads of a header before the connection is closed
  MaxSent,     \* bound: packets written
  MaxFailures  \* bound: writes that time out

VARIABLES
  holder,       \* who holds write_lock
  rest,         \* rest[w]: tokens of w's buffer not yet written
  wire,         \* tokens on their way
  open,         \* the writing side has not closed
  phase,        \* the reader: "header", "payload" or "ended"
  buffer,       \* what _recv_exact has read so far
  header,       \* the header whose payload is read
  silent,       \* timeouts in a row
  established,  \* verack was handled
  begun,        \* packets whose write began, in the order of the lock
  failures,     \* writes that timed out
  lost,         \* tokens dropped by a header read that timed out
  handled       \* packets given to _handle

vars == <<holder, rest, wire, open, phase, buffer, header, silent, established, begun,
          failures, lost, handled>>
writerVars == <<holder, rest, open, begun, failures>>
readerVars == <<phase, buffer, header, silent, established, lost, handled>>

HeaderOf(p) == [command |-> p.command, length |-> Len(p.payload), sum |-> p.payload]

StreamAssumption ==
  /\ NoWriter \notin Writers
  /\ \A p \in Packets : /\ p = [command |-> p.command, payload |-> p.payload]
                        /\ p.payload \in Seq({Magic, Data}) /\ Len(p.payload) <= MaxLength
                        /\ HeaderOf(p) \notin {Magic, Data, NoSum}
  /\ NoSum \notin {Magic, Data}
  /\ {MaxLength, MaxSent, MaxFailures} \subseteq Nat /\ Patience \in Nat \ {0}

\* create_packet
Tokens(p) == <<Magic, HeaderOf(p)>> \o p.payload

AllTokens(ps) == FlattenSeq([i \in DOMAIN ps |-> Tokens(ps[i])])

NoHeader == [command |-> "none", length |-> 0, sum |-> <<>>]

Init ==
  /\ holder = NoWriter /\ rest = [w \in Writers |-> <<>>] /\ wire = <<>> /\ open = TRUE
  /\ phase = "header" /\ buffer = <<>> /\ header = NoHeader /\ silent = 0
  /\ established = FALSE /\ begun = <<>> /\ failures = 0 /\ lost = 0 /\ handled = <<>>

-----------------------------------------------------------------------------
(* Writers                                                                   *)

\* Mutant of LockFree: sendall without write_lock.
LockIgnored(w) == rest[w] = <<>>

LockFree(w) == holder = NoWriter

\* send_packet of one packet, send_packets of several of one command.
Begin(w, ps) ==
  /\ open /\ LockFree(w)
  /\ Len(begun) + Len(ps) <= MaxSent
  /\ holder' = w
  /\ rest' = [rest EXCEPT ![w] = AllTokens(ps)]
  /\ begun' = begun \o ps
  /\ UNCHANGED <<wire, open, failures, readerVars>>

Write(w) ==
  /\ rest[w] # <<>> /\ open /\ phase # "ended"
  /\ wire' = Append(wire, Head(rest[w]))
  /\ rest' = [rest EXCEPT ![w] = Tail(@)]
  /\ holder' = IF rest'[w] = <<>> THEN NoWriter ELSE holder
  /\ UNCHANGED <<open, begun, failures, readerVars>>

\* sendall raises: after a timeout, which leaves the connection open, or because
\* either side has closed it.
WriteFails(w) ==
  /\ rest[w] # <<>>
  /\ \/ open /\ phase # "ended" /\ failures < MaxFailures /\ failures' = failures + 1
     \/ (~ open \/ phase = "ended") /\ UNCHANGED failures
  /\ rest' = [rest EXCEPT ![w] = <<>>]
  /\ holder' = NoWriter
  /\ UNCHANGED <<wire, open, begun, readerVars>>

Close ==
  /\ open
  /\ open' = FALSE
  /\ UNCHANGED <<holder, rest, wire, begun, failures, readerVars>>

-----------------------------------------------------------------------------
(* The reader: _handshake_once until verack, then _read_loop                 *)

Wanted == IF phase = "header" THEN 2 ELSE header.length

Reading == phase # "ended" /\ Len(buffer) < Wanted

End == phase' = "ended" /\ buffer' = <<>>

Receive ==
  /\ Reading /\ wire # <<>>
  /\ buffer' = Append(buffer, Head(wire))
  /\ wire' = Tail(wire)
  /\ UNCHANGED <<phase, header, silent, established, lost, handled, writerVars>>

\* Data read as a header announces any length; its checksum fits no payload.
Parsed(token) ==
  IF token \in {Magic, Data}
  THEN [command : {"none"}, length : 0..(MaxLength + 1), sum : {<<NoSum>>}]
  ELSE {token}

ReadHeader ==
  /\ phase = "header" /\ Len(buffer) = Wanted
  /\ \/ /\ buffer[1] # Magic
        /\ End /\ UNCHANGED <<header, silent>>
     \/ /\ buffer[1] = Magic
        /\ \E h \in Parsed(buffer[2]) :
             IF h.length > MaxLength
             THEN End /\ UNCHANGED <<header, silent>>
             ELSE /\ header' = h /\ phase' = "payload" /\ buffer' = <<>> /\ silent' = 0
  /\ UNCHANGED <<wire, established, lost, handled, writerVars>>

SumFits == header.sum = buffer

ReadPayload ==
  /\ phase = "payload" /\ Len(buffer) = Wanted
  /\ handled' = IF SumFits
                THEN Append(handled, [command |-> header.command, payload |-> buffer])
                ELSE handled
  /\ established' = (established \/ (SumFits /\ header.command = "verack"))
  /\ phase' = "header" /\ buffer' = <<>> /\ header' = NoHeader
  /\ UNCHANGED <<wire, silent, lost, writerVars>>

\* The socket was silent for recv_timeout seconds. Only _read_loop catches the
\* timeout of a header, and what it had read of it is gone.
TimesOut ==
  /\ Reading /\ wire = <<>> /\ open
  /\ IF phase = "header" /\ established
     THEN /\ silent' = silent + 1
          /\ lost' = lost + Len(buffer)
          /\ IF silent' >= Patience THEN End ELSE buffer' = <<>> /\ UNCHANGED phase
     ELSE End /\ UNCHANGED <<silent, lost>>
  /\ UNCHANGED <<wire, header, established, handled, writerVars>>

\* The deadline of _handshake, looked at between two packets.
HandshakeEnds ==
  /\ phase = "header" /\ buffer = <<>> /\ ~ established
  /\ End
  /\ UNCHANGED <<wire, header, silent, established, lost, handled, writerVars>>

\* recv returns nothing.
Closed ==
  /\ Reading /\ wire = <<>> /\ ~ open
  /\ End
  /\ UNCHANGED <<wire, header, silent, established, lost, handled, writerVars>>

Next ==
  \/ \E w \in Writers :
       \/ \E p \in Packets : Begin(w, <<p>>)
       \/ \E p, q \in Packets : p.command = q.command /\ Begin(w, <<p, q>>)
       \/ Write(w) \/ WriteFails(w)
  \/ Close \/ Receive \/ ReadHeader \/ ReadPayload \/ TimesOut \/ HandshakeEnds \/ Closed

Spec == Init /\ [][Next]_vars

-----------------------------------------------------------------------------
(* Properties                                                                *)

TypeOK ==
  /\ holder \in Writers \union {NoWriter}
  /\ begun \in Seq(Packets) /\ Len(begun) <= MaxSent
  /\ phase \in {"header", "payload", "ended"}
  /\ phase # "ended" => Len(buffer) <= Wanted
  /\ silent \in 0..Patience /\ failures \in 0..MaxFailures

\* What is handled was written, and in the order of its writing: not the bytes
\* of two packets mixed, nor the rest of one that failed with the next one.
OnlySentHandled ==
  \E at \in [DOMAIN handled -> DOMAIN begun] :
    /\ \A i \in DOMAIN handled : handled[i] = begun[at[i]]
    /\ \A i, j \in DOMAIN handled : i < j => at[i] < at[j]

Consumed == (IF phase = "payload" THEN <<Magic, header>> ELSE <<>>) \o buffer

\* While no write failed and no header read was cut short, every packet is
\* handled, on its way, or still being written: none is skipped.
NothingSkipped ==
  (failures = 0 /\ lost = 0 /\ phase # "ended" /\ open)
    => AllTokens(handled) \o Consumed \o wire
         \o (IF holder = NoWriter THEN <<>> ELSE rest[holder]) = AllTokens(begun)

\* Over a connection that threads share, packets arrive whole, in order, and
\* without a gap unless a write failed.
FramesKept == OnlySentHandled /\ NothingSkipped

-----------------------------------------------------------------------------
(* What does not hold (see README, divergences)                              *)

\* The reader gives up only after Patience silent reads, a failed write or the
\* end of the connection.
SlowIsTolerated ==
  (phase = "ended" /\ open /\ established) => failures > 0 \/ silent >= Patience
=============================================================================
