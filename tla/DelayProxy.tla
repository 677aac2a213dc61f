---------------------------- MODULE DelayProxy ----------------------------
(***************************************************************************)
(* skills/java-latency-measurement/scripts/TcpDelayProxy.java: one client  *)
(* connection, from accept to the end of its four threads.                 *)
(*                                                                         *)
(* Each direction has a reader thread, a bounded queue and a writer        *)
(* thread.  The reader owns the input stream of the socket it reads from   *)
(* and the writer the output stream of the one it writes to; closing       *)
(* either stream closes that socket in both directions.  The two           *)
(* applications and the kernel buffers between them and the proxy are the  *)
(* environment.  The n-th chunk an application writes is the number n; the *)
(* delay itself only decides when a writer goes on, which may be any time. *)
(***************************************************************************)
EXTENDS Naturals, Sequences, FiniteSets

CONSTANTS
  MaxQueue,    (* --max-queue                                              *)
  Window,      (* bound: chunks a kernel buffer holds                      *)
  MaxChunks    (* bound: MaxChunks[d] chunks are written in direction d    *)

Dirs == {"up", "down"}

ASSUME SizesAssumption ==
  MaxQueue \in Nat \ {0} /\ Window \in Nat \ {0} /\ MaxChunks \in [Dirs -> Nat]

Back(d) == IF d = "up" THEN "down" ELSE "up"

(* The sockets of the proxy, each connected to the application it names. *)
Sockets == {"client", "upstream"}
From(d) == IF d = "up" THEN "client" ELSE "upstream"
To(d) == From(Back(d))

Eof == 0

VARIABLES
  conn,      (* the acceptor: "accepted", "piped", "failed"                *)
  app,       (* each application: "open", "half" (output shut), "closed"   *)
  open,      (* open[s] = 1: the proxy has not closed its socket s         *)
  sent,      (* chunks written by the application at From(d)               *)
  inbox,     (* of those, the ones the kernel holds for the reader         *)
  reader,    (* reader thread: "new", "read", "put", "putEof", "done"      *)
  rheld,     (* the chunk it has read                                      *)
  queue,
  writer,    (* writer thread: "new", "take", "write", "close", "done"     *)
  wheld,     (* the chunk it has taken                                     *)
  outbox,    (* written to the socket To(d), held by the kernel            *)
  received,  (* read by the application at To(d)                           *)
  ended,     (* that application has seen the end of the stream            *)
  stopped    (* the proxy's JVM has ended                                  *)

vars == <<conn, app, open, sent, inbox, reader, rheld, queue, writer, wheld,
          outbox, received, ended, stopped>>

input == <<sent, inbox, reader, rheld>>
output == <<writer, wheld, outbox>>
apps == <<app, received, ended>>

Both(v) == [d \in Dirs |-> v]

Init ==
  /\ conn = "accepted"
  /\ app = [s \in Sockets |-> "open"] /\ open = [s \in Sockets |-> 1]
  /\ sent = Both(0) /\ inbox = Both(<<>>)
  /\ reader = Both("new") /\ rheld = Both(0)
  /\ queue = Both(<<>>)
  /\ writer = Both("new") /\ wheld = Both(0)
  /\ outbox = Both(<<>>) /\ received = Both(<<>>) /\ ended = Both(0)
  /\ stopped = 0

(* Socket.close() on the sockets of S.  What they had not read is dropped; *)
(* the kernel then answers with a reset, and what was written to them and  *)
(* not yet received may be dropped with it.                                *)
Close(S) ==
  /\ open' = [s \in Sockets |-> IF s \in S THEN 0 ELSE open[s]]
  /\ inbox' = [d \in Dirs |-> IF From(d) \in S THEN <<>> ELSE inbox[d]]
  /\ \E lose \in SUBSET {d \in Dirs : To(d) \in S /\ inbox[Back(d)] # <<>>} :
       outbox' = [d \in Dirs |-> IF d \in lose THEN <<>> ELSE outbox[d]]

-----------------------------------------------------------------------------
(* The acceptor *)

(* upstream.connect(targetAddress, 5_000) and the two pipes *)
Connect ==
  /\ conn = "accepted" /\ stopped = 0
  /\ conn' = "piped"
  /\ reader' = Both("read") /\ writer' = Both("take")
  /\ UNCHANGED <<apps, open, sent, inbox, rheld, queue, wheld, outbox, stopped>>

(* connect throws: the message is printed; nobody closes the client. *)
ConnectFails ==
  /\ conn = "accepted" /\ stopped = 0
  /\ conn' = "failed"
  /\ UNCHANGED <<apps, open, input, queue, output, stopped>>

-----------------------------------------------------------------------------
(* The reader thread of direction d *)

ReadChunk(d) ==
  /\ reader[d] = "read" /\ open[From(d)] = 1 /\ inbox[d] # <<>>
  /\ rheld' = [rheld EXCEPT ![d] = Head(inbox[d])]
  /\ inbox' = [inbox EXCEPT ![d] = Tail(@)]
  /\ reader' = [reader EXCEPT ![d] = "put"]
  /\ UNCHANGED <<conn, apps, open, sent, queue, output, stopped>>

(* read returns -1, or throws because the socket was closed; leaving the   *)
(* try block closes the input stream and with it the socket.               *)
ReadEnds(d) ==
  /\ reader[d] = "read"
  /\ \/ open[From(d)] = 0
     \/ inbox[d] = <<>> /\ app[From(d)] \in {"half", "closed"}
  /\ Close({From(d)})
  /\ reader' = [reader EXCEPT ![d] = "putEof"]
  /\ UNCHANGED <<conn, apps, sent, rheld, queue, writer, wheld, stopped>>

(* Mutant: the queue is one shorter than asked. *)
EnqueueShort(d, x) ==
  /\ Len(queue[d]) < MaxQueue - 1
  /\ queue' = [queue EXCEPT ![d] = Append(@, x)]

Enqueue(d, x) ==
  /\ Len(queue[d]) < MaxQueue
  /\ queue' = [queue EXCEPT ![d] = Append(@, x)]

(* Mutant: queue.offer *)
Offer(d) ==
  /\ reader[d] = "put"
  /\ queue' = IF Len(queue[d]) < MaxQueue
              THEN [queue EXCEPT ![d] = Append(@, rheld[d])] ELSE queue
  /\ rheld' = [rheld EXCEPT ![d] = 0]
  /\ reader' = [reader EXCEPT ![d] = "read"]
  /\ UNCHANGED <<conn, apps, open, sent, inbox, output, stopped>>

(* queue.put blocks while the queue is full. *)
PutChunk(d) ==
  /\ reader[d] = "put"
  /\ Enqueue(d, rheld[d])
  /\ rheld' = [rheld EXCEPT ![d] = 0]
  /\ reader' = [reader EXCEPT ![d] = "read"]
  /\ UNCHANGED <<conn, apps, open, sent, inbox, output, stopped>>

PutEof(d) ==
  /\ reader[d] = "putEof"
  /\ Enqueue(d, Eof)
  /\ reader' = [reader EXCEPT ![d] = "done"]
  /\ UNCHANGED <<conn, apps, open, sent, inbox, rheld, output, stopped>>

-----------------------------------------------------------------------------
(* The writer thread of direction d *)

(* Mutant: queue.peek *)
Peek(d) ==
  /\ writer[d] = "take" /\ queue[d] # <<>>
  /\ wheld' = [wheld EXCEPT ![d] = Head(queue[d])]
  /\ writer' = [writer EXCEPT ![d] = IF Head(queue[d]) = Eof THEN "close" ELSE "write"]
  /\ UNCHANGED <<conn, apps, open, input, queue, outbox, stopped>>

(* queue.take, then park until the chunk is due. *)
Take(d) ==
  /\ writer[d] = "take" /\ queue[d] # <<>>
  /\ queue' = [queue EXCEPT ![d] = Tail(@)]
  /\ wheld' = [wheld EXCEPT ![d] = Head(queue[d])]
  /\ writer' = [writer EXCEPT ![d] = IF Head(queue[d]) = Eof THEN "close" ELSE "write"]
  /\ UNCHANGED <<conn, apps, open, input, outbox, stopped>>

(* out.write blocks while the kernel buffer is full. *)
WriteChunk(d) ==
  /\ writer[d] = "write"
  /\ open[To(d)] = 1 /\ Len(outbox[d]) < Window
  /\ outbox' = [outbox EXCEPT ![d] = Append(@, wheld[d])]
  /\ wheld' = [wheld EXCEPT ![d] = 0]
  /\ writer' = [writer EXCEPT ![d] = "take"]
  /\ UNCHANGED <<conn, apps, open, input, queue, stopped>>

(* write throws: the socket was closed here, or reset by its application. *)
WriteFails(d) ==
  /\ writer[d] = "write"
  /\ open[To(d)] = 0 \/ app[To(d)] = "closed"
  /\ wheld' = [wheld EXCEPT ![d] = 0]
  /\ writer' = [writer EXCEPT ![d] = "close"]
  /\ UNCHANGED <<conn, apps, open, input, queue, outbox, stopped>>

(* Leaving the try block closes To(d); then both sockets are closed. *)
CloseBoth(d) ==
  /\ writer[d] = "close"
  /\ Close(Sockets)
  /\ writer' = [writer EXCEPT ![d] = "done"]
  /\ UNCHANGED <<conn, apps, sent, reader, rheld, queue, wheld, stopped>>

-----------------------------------------------------------------------------
(* The environment *)

(* main returns at the deadline; every other thread is a daemon. *)
Stop ==
  /\ stopped = 0
  /\ stopped' = 1
  /\ Close(Sockets)
  /\ reader' = Both("done") /\ writer' = Both("done")
  /\ rheld' = Both(0) /\ wheld' = Both(0)
  /\ UNCHANGED <<conn, apps, sent, queue>>

Send(d) ==
  /\ app[From(d)] = "open" /\ open[From(d)] = 1
  /\ d = "up" \/ conn = "piped"
  /\ sent[d] < MaxChunks[d] /\ Len(inbox[d]) < Window
  /\ sent' = [sent EXCEPT ![d] = @ + 1]
  /\ inbox' = [inbox EXCEPT ![d] = Append(@, sent[d] + 1)]
  /\ UNCHANGED <<conn, apps, open, reader, rheld, queue, output, stopped>>

Receive(d) ==
  /\ app[To(d)] # "closed" /\ outbox[d] # <<>>
  /\ received' = [received EXCEPT ![d] = Append(@, Head(outbox[d]))]
  /\ outbox' = [outbox EXCEPT ![d] = Tail(@)]
  /\ UNCHANGED <<conn, app, ended, open, input, queue, writer, wheld, stopped>>

SeeEnd(d) ==
  /\ app[To(d)] # "closed" /\ open[To(d)] = 0 /\ outbox[d] = <<>>
  /\ ended[d] = 0
  /\ ended' = [ended EXCEPT ![d] = 1]
  /\ UNCHANGED <<conn, app, received, open, input, queue, output, stopped>>

(* shutdownOutput or close by an application *)
Leave(s) ==
  /\ s = "client" \/ conn = "piped"
  /\ \/ app[s] = "open" /\ app' = [app EXCEPT ![s] = "half"]
     \/ app[s] # "closed" /\ app' = [app EXCEPT ![s] = "closed"]
  /\ UNCHANGED <<conn, received, ended, open, input, queue, output, stopped>>

Reader(d) == ReadChunk(d) \/ ReadEnds(d) \/ PutChunk(d) \/ PutEof(d)
Writer(d) == Take(d) \/ WriteChunk(d) \/ WriteFails(d) \/ CloseBoth(d)
Acceptor == Connect \/ ConnectFails

Next ==
  \/ Acceptor
  \/ \E d \in Dirs : Reader(d) \/ Writer(d) \/ Send(d) \/ Receive(d) \/ SeeEnd(d)
  \/ \E s \in Sockets : Leave(s)
  \/ Stop

Spec == Init /\ [][Next]_vars

(* The JVM runs every thread that can go on, and the applications read.    *)
FairSpec ==
  /\ Spec
  /\ WF_vars(Acceptor)
  /\ \A d \in Dirs :
       WF_vars(Reader(d)) /\ WF_vars(Writer(d)) /\ WF_vars(Receive(d) \/ SeeEnd(d))
-----------------------------------------------------------------------------
(* Correctness *)

(* The variables hold what the threads put in them; no queue is longer     *)
(* than --max-queue.                                                       *)
TypeOK ==
  /\ conn \in {"accepted", "piped", "failed"}
  /\ app \in [Sockets -> {"open", "half", "closed"}]
  /\ open \in [Sockets -> {0, 1}]
  /\ sent \in [Dirs -> Nat] /\ \A d \in Dirs : sent[d] <= MaxChunks[d]
  /\ inbox \in [Dirs -> Seq(Nat)] /\ outbox \in [Dirs -> Seq(Nat)]
  /\ reader \in [Dirs -> {"new", "read", "put", "putEof", "done"}]
  /\ writer \in [Dirs -> {"new", "take", "write", "close", "done"}]
  /\ rheld \in [Dirs -> Nat] /\ wheld \in [Dirs -> Nat]
  /\ queue \in [Dirs -> Seq(Nat)]
  /\ \A d \in Dirs : Len(queue[d]) <= MaxQueue
  /\ received \in [Dirs -> Seq(Nat)]
  /\ ended \in [Dirs -> {0, 1}]
  /\ stopped \in {0, 1}

(* "no [...] reordering": what an application has read is an initial part  *)
(* of what the other one wrote: nothing twice, nothing out of order and,   *)
(* before the end, no gap.                                                 *)
InOrder ==
  \A d \in Dirs :
    /\ Len(received[d]) <= sent[d]
    /\ \A i \in 1..Len(received[d]) : received[d][i] = i

(* Chunks of direction d the proxy or a kernel buffer holds. *)
Held(d) ==
  Len(outbox[d]) + (IF wheld[d] = 0 THEN 0 ELSE 1)
    + Cardinality({i \in 1..Len(queue[d]) : queue[d][i] # Eof})
    + (IF rheld[d] = 0 THEN 0 ELSE 1) + Len(inbox[d])

(* "no loss", as far as it goes: while neither socket has been closed,     *)
(* every chunk sent to an application that is there has been received or   *)
(* is on its way.                                                          *)
NoLossWhileOpen ==
  (\A s \in Sockets : open[s] = 1) =>
    \A d \in Dirs : app[To(d)] # "closed" => sent[d] = Len(received[d]) + Held(d)

Leaving ==
  conn = "failed" \/ stopped = 1 \/ \E s \in Sockets : app[s] # "open"

(* Every chunk arrives, unless an application shuts its side, the target   *)
(* refuses the connection or the proxy's time is over.                     *)
Delivers ==
  \A d \in Dirs : \A n \in 1..MaxChunks[d] :
    sent[d] >= n ~> Len(received[d]) >= n \/ Leaving

(* Each direction is a stream: see StreamAbs. *)
Up == INSTANCE StreamAbs WITH sent <- sent["up"], received <- received["up"]
Down == INSTANCE StreamAbs WITH sent <- sent["down"], received <- received["down"]

ImplementsStream == Up!Spec /\ Down!Spec
=============================================================================
