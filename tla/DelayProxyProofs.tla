-------------------------- MODULE DelayProxyProofs --------------------------
(***************************************************************************)
(* Proofs about DelayProxy for every queue size, every kernel buffer and   *)
(* any number of chunks.                                                   *)
(*                                                                         *)
(* What an application reads is in order because the five places a chunk   *)
(* can be in (the buffer to the writer's socket, the writer, the queue,    *)
(* the reader, the buffer of the reader's socket) hold consecutive         *)
(* numbers, for as long as the direction can still write.                  *)
(***************************************************************************)
EXTENDS DelayProxy, SequenceTheorems, FiniteSetTheorems, TLAPS

(* A writer thread that may still write. *)
Writing == {"new", "take", "write"}
(* A reader thread that has not met the end. *)
Reading == {"new", "read", "put"}

(* Len, with a name of its own: sums of lengths are then sums of unknowns  *)
(* for the provers.                                                        *)
Count(x) == Len(x)

(* The chunks x of one place follow number n. *)
Follows(x, n) == \A i \in 1..Len(x) : x[i] = n + i

(* So do those of a queue whose reader is done, before the end of stream;  *)
(* sn chunks have been sent.                                               *)
Drains(x, n, sn) ==
  \A i \in 1..Len(x) : (x[i] = Eof /\ i = Len(x)) \/ (x[i] = n + i /\ x[i] <= sn)

(* How many chunks have left the proxy, the queue and the reader's socket. *)
Past(d) == Count(received[d]) + Count(outbox[d])
Taken(d) == Past(d) + (IF writer[d] = "write" THEN 1 ELSE 0)
ReadSoFar(d) == Taken(d) + Count(queue[d]) + (IF reader[d] = "put" THEN 1 ELSE 0)

(* What has left is in order ... *)
OutPart(d) ==
  Follows(received[d], 0) /\ Follows(outbox[d], Count(received[d])) /\ Past(d) <= sent[d]

(* ... nothing enters through a closed socket ... *)
EndPart(d) ==
  /\ open[From(d)] = 1 => reader[d] \in Reading
  /\ open[From(d)] = 0 => inbox[d] = <<>>

(* ... and, while the direction can still write, what follows is in the    *)
(* writer, the queue, the reader and the buffer of its socket.             *)
Live(d) == open[To(d)] = 1 /\ writer[d] \in Writing

WriterPart(d) ==
  IF writer[d] = "write" THEN wheld[d] = Past(d) + 1 /\ wheld[d] <= sent[d] ELSE wheld[d] = 0

QueuePart(d) ==
  IF reader[d] = "done" THEN Drains(queue[d], Taken(d), sent[d])
  ELSE Follows(queue[d], Taken(d)) /\ Taken(d) + Count(queue[d]) <= sent[d]

ReaderPart(d) ==
  reader[d] \in Reading =>
    /\ rheld[d] = IF reader[d] = "put" THEN ReadSoFar(d) ELSE 0
    /\ Follows(inbox[d], ReadSoFar(d))
    /\ ReadSoFar(d) + Count(inbox[d]) <= sent[d]
    /\ open[From(d)] = 1 => ReadSoFar(d) + Count(inbox[d]) = sent[d]

Pipe(d) ==
  /\ OutPart(d) /\ EndPart(d)
  /\ Live(d) => WriterPart(d) /\ QueuePart(d) /\ ReaderPart(d)

(* Why a writer may have given up while both sockets are open. *)
WriterLeft(d) ==
  (\A s \in Sockets : open[s] = 1) => writer[d] \in Writing \/ app[To(d)] = "closed"

(* The threads start when the target has accepted. *)
Unstarted ==
  conn = "accepted" /\ stopped = 0 => \A d \in Dirs : reader[d] = "new" /\ writer[d] = "new"

IInv == TypeOK /\ Unstarted /\ \A d \in Dirs : Pipe(d) /\ WriterLeft(d)
-----------------------------------------------------------------------------
(* Append, as PutChunk, PutEof, WriteChunk, Send and Receive use it. *)
LEMMA AppendSeq ==
  ASSUME NEW s \in Seq(Nat), NEW x \in Nat
  PROVE  /\ Append(s, x) \in Seq(Nat) /\ Len(Append(s, x)) = Len(s) + 1 /\ Len(s) \in Nat
         /\ Count(Append(s, x)) = Count(s) + 1
         /\ \A i \in 1..Len(s) : Append(s, x)[i] = s[i]
         /\ Append(s, x)[Len(s) + 1] = x
  BY AppendProperties, LenProperties DEF Count

(* Head and Tail, as ReadChunk, Take and Receive use them. *)
LEMMA TailSeq ==
  ASSUME NEW s \in Seq(Nat), s # <<>>
  PROVE  /\ Tail(s) \in Seq(Nat) /\ Head(s) \in Nat /\ Head(s) = s[1]
         /\ Len(s) \in Nat \ {0} /\ Len(Tail(s)) = Len(s) - 1
         /\ Count(s) \in Nat \ {0} /\ Count(Tail(s)) = Count(s) - 1
         /\ \A i \in 1..(Len(s) - 1) : Tail(s)[i] = s[i + 1]
  BY HeadTailProperties, EmptySeq, LenProperties DEF Count

(* The buffers of Init, and of a closed socket. *)
LEMMA EmptyIsSeq == <<>> \in Seq(Nat) /\ Len(<<>>) = 0 /\ Count(<<>>) = 0
  BY EmptySeq DEF Count

(* An empty place follows any number. *)
LEMMA FollowsEmpty == \A n, sn : Follows(<<>>, n) /\ Drains(<<>>, n, sn)
  BY EmptyIsSeq DEF Follows, Drains

(* The next number may be put at the end of a place ... *)
LEMMA FollowsAppend ==
  ASSUME NEW s \in Seq(Nat), NEW n \in Nat, Follows(s, n)
  PROVE  Follows(Append(s, n + Count(s) + 1), n)
<1> DEFINE t == Append(s, n + Len(s) + 1)
<1>1. n + Len(s) + 1 \in Nat /\ Len(s) \in Nat
  BY LenProperties
<1>2. /\ Len(t) = Len(s) + 1 /\ \A i \in 1..Len(s) : t[i] = s[i]
      /\ t[Len(s) + 1] = n + Len(s) + 1
  BY <1>1, AppendSeq
<1> HIDE DEF t
<1>3. ASSUME NEW i \in 1..Len(t) PROVE t[i] = n + i
  <2>1. i \in 1..Len(s) \/ i = Len(s) + 1
    BY <1>1, <1>2
  <2> QED
    BY <1>1, <1>2, <2>1 DEF Follows
<1> QED
  BY <1>3 DEF Follows, t, Count

(* ... and the first one is taken from its front. *)
LEMMA FollowsTail ==
  ASSUME NEW s \in Seq(Nat), s # <<>>, NEW n \in Nat, Follows(s, n)
  PROVE  Head(s) = n + 1 /\ Follows(Tail(s), n + 1)
  BY TailSeq DEF Follows

(* The end of stream closes a queue (PutEof) ... *)
LEMMA DrainsFrom ==
  ASSUME NEW s \in Seq(Nat), NEW n \in Nat, NEW sn \in Nat, Follows(s, n), n + Count(s) <= sn
  PROVE  Drains(Append(s, Eof), n, sn)
<1> DEFINE t == Append(s, Eof)
<1>1. /\ Len(s) \in Nat /\ Len(t) = Len(s) + 1 /\ \A i \in 1..Len(s) : t[i] = s[i]
      /\ t[Len(s) + 1] = Eof /\ n + Len(s) <= sn
  BY AppendSeq DEF Eof, Count
<1> HIDE DEF t
<1>2. ASSUME NEW i \in 1..Len(t)
      PROVE  (t[i] = Eof /\ i = Len(t)) \/ (t[i] = n + i /\ t[i] <= sn)
  <2>1. i \in 1..Len(s) \/ i = Len(s) + 1
    BY <1>1
  <2>2. CASE i \in 1..Len(s)
    BY <1>1, <2>2 DEF Follows
  <2> QED
    BY <1>1, <2>1, <2>2
<1> QED
  BY <1>2 DEF Drains, t

(* ... from which the writer goes on taking (Take). *)
LEMMA DrainsTail ==
  ASSUME NEW s \in Seq(Nat), s # <<>>, NEW n \in Nat, NEW sn \in Nat, Drains(s, n, sn)
  PROVE  Head(s) = Eof \/ (Head(s) = n + 1 /\ Head(s) <= sn /\ Drains(Tail(s), n + 1, sn))
<1> DEFINE t == Tail(s)
<1>1. /\ Head(s) = s[1] /\ Len(s) \in Nat \ {0} /\ Len(t) = Len(s) - 1
      /\ \A i \in 1..(Len(s) - 1) : t[i] = s[i + 1]
  BY TailSeq
<1> HIDE DEF t
<1>2. Head(s) = Eof \/ (Head(s) = n + 1 /\ Head(s) <= sn)
  <2>1. 1 \in 1..Len(s)
    BY <1>1
  <2> QED
    BY <1>1, <2>1 DEF Drains
<1>3. ASSUME NEW i \in 1..Len(t)
      PROVE  (t[i] = Eof /\ i = Len(t)) \/ (t[i] = (n + 1) + i /\ t[i] <= sn)
  <2>1. i \in 1..(Len(s) - 1) /\ i + 1 \in 1..Len(s) /\ t[i] = s[i + 1] /\ i \in Nat
    BY <1>1
  <2>2. (s[i + 1] = Eof /\ i + 1 = Len(s)) \/ (s[i + 1] = n + (i + 1) /\ s[i + 1] <= sn)
    BY <2>1 DEF Drains
  <2>3. i + 1 = Len(s) => i = Len(t)
    BY <1>1, <2>1
  <2>4. n + (i + 1) = (n + 1) + i
    BY <2>1
  <2> QED
    BY <2>1, <2>2, <2>3, <2>4
<1> QED
  BY <1>2, <1>3 DEF Drains, t

(* Closing sockets leaves every buffer as it is or empty. *)
LEMMA CloseEffect ==
  ASSUME TypeOK, NEW S \in SUBSET Sockets, Close(S)
  PROVE  /\ open' \in [Sockets -> {0, 1}]
         /\ \A s \in Sockets : open'[s] = IF s \in S THEN 0 ELSE open[s]
         /\ inbox' \in [Dirs -> Seq(Nat)] /\ outbox' \in [Dirs -> Seq(Nat)]
         /\ \A d \in Dirs : inbox'[d] = IF From(d) \in S THEN <<>> ELSE inbox[d]
         /\ \A d \in Dirs : outbox'[d] = outbox[d] \/ (outbox'[d] = <<>> /\ To(d) \in S)
  BY EmptyIsSeq DEF Close, TypeOK

(* A direction reads from one socket and writes to the other. *)
LEMMA Ends ==
  ASSUME NEW d \in Dirs
  PROVE  /\ From(d) \in Sockets /\ To(d) \in Sockets /\ From(d) # To(d)
         /\ Back(d) \in Dirs /\ Back(d) # d
         /\ \A e \in Dirs : e # d => From(e) = To(d) /\ To(e) = From(d)
         /\ \A s \in Sockets : s = From(d) \/ s = To(d)
  BY DEF Dirs, From, To, Back, Sockets
-----------------------------------------------------------------------------
(* Type correctness *)

(* The types hold at the start ... *)
LEMMA TypeInit == Init => TypeOK
  BY EmptyIsSeq, SizesAssumption DEF Init, TypeOK, Both, SizesAssumption

(* ... and every thread, the acceptor and the applications keep them. *)
LEMMA TypeStep == TypeOK /\ [Next]_vars => TypeOK'
<1> SUFFICES ASSUME TypeOK, [Next]_vars PROVE TypeOK'
  OBVIOUS
<1>1. CASE Acceptor
  <2>1. /\ conn' \in {"piped", "failed"}
        /\ reader' = reader \/ reader' = Both("read")
        /\ writer' = writer \/ writer' = Both("take")
        /\ UNCHANGED <<app, received, ended, open, sent, inbox, rheld, queue, wheld, outbox,
                       stopped>>
    BY <1>1 DEF Acceptor, Connect, ConnectFails, apps, input, output
  <2>2. reader' \in [Dirs -> {"new", "read", "put", "putEof", "done"}]
    BY <2>1 DEF TypeOK, Both
  <2>3. writer' \in [Dirs -> {"new", "take", "write", "close", "done"}]
    BY <2>1 DEF TypeOK, Both
  <2> QED
    BY <2>1, <2>2, <2>3 DEF TypeOK
<1>2. ASSUME NEW d \in Dirs, Reader(d) PROVE TypeOK'
  <2>1. CASE ReadChunk(d)
    <3>1. Tail(inbox[d]) \in Seq(Nat) /\ Head(inbox[d]) \in Nat
      BY <1>2, <2>1, TailSeq DEF ReadChunk, TypeOK
    <3> QED
      BY <1>2, <2>1, <3>1 DEF ReadChunk, TypeOK, apps, output
  <2>2. CASE ReadEnds(d)
    <3>1. {From(d)} \in SUBSET Sockets
      BY <1>2, Ends
    <3>2. Close({From(d)})
      BY <2>2 DEF ReadEnds
    <3> QED
      BY <1>2, <2>2, <3>1, <3>2, CloseEffect DEF ReadEnds, TypeOK, apps
  <2>3. CASE PutChunk(d)
    <3>1. /\ Append(queue[d], rheld[d]) \in Seq(Nat)
          /\ Len(Append(queue[d], rheld[d])) <= MaxQueue
      BY <1>2, <2>3, AppendSeq, SizesAssumption DEF PutChunk, Enqueue, TypeOK, SizesAssumption
    <3> QED
      BY <1>2, <2>3, <3>1 DEF PutChunk, Enqueue, TypeOK, apps, output
  <2>4. CASE PutEof(d)
    <3>1. Append(queue[d], Eof) \in Seq(Nat) /\ Len(Append(queue[d], Eof)) <= MaxQueue
      BY <1>2, <2>4, AppendSeq, SizesAssumption DEF PutEof, Enqueue, TypeOK, Eof, SizesAssumption
    <3> QED
      BY <1>2, <2>4, <3>1 DEF PutEof, Enqueue, TypeOK, apps, output
  <2> QED
    BY <1>2, <2>1, <2>2, <2>3, <2>4 DEF Reader
<1>3. ASSUME NEW d \in Dirs, Writer(d) PROVE TypeOK'
  <2>1. CASE Take(d)
    <3>1. /\ Tail(queue[d]) \in Seq(Nat) /\ Head(queue[d]) \in Nat
          /\ Len(Tail(queue[d])) <= MaxQueue
      BY <1>3, <2>1, TailSeq, SizesAssumption DEF Take, TypeOK, SizesAssumption
    <3> QED
      BY <1>3, <2>1, <3>1 DEF Take, TypeOK, apps, input
  <2>2. CASE WriteChunk(d)
    <3>1. Append(outbox[d], wheld[d]) \in Seq(Nat)
      BY <1>3, AppendSeq DEF TypeOK
    <3> QED
      BY <1>3, <2>2, <3>1 DEF WriteChunk, TypeOK, apps, input
  <2>3. CASE WriteFails(d)
    BY <1>3, <2>3 DEF WriteFails, TypeOK, apps, input
  <2>4. CASE CloseBoth(d)
    BY <1>3, <2>4, CloseEffect DEF CloseBoth, TypeOK, apps
  <2> QED
    BY <1>3, <2>1, <2>2, <2>3, <2>4 DEF Writer
<1>4. ASSUME NEW d \in Dirs, Send(d) PROVE TypeOK'
  <2>0. sent[d] \in Nat /\ MaxChunks[d] \in Nat /\ sent[d] < MaxChunks[d]
    BY <1>4, SizesAssumption DEF Send, TypeOK, SizesAssumption
  <2>1. sent[d] + 1 \in Nat /\ sent[d] + 1 <= MaxChunks[d]
    BY <2>0
  <2>2. Append(inbox[d], sent[d] + 1) \in Seq(Nat)
    BY <1>4, <2>1, AppendSeq DEF TypeOK
  <2> QED
    BY <1>4, <2>1, <2>2 DEF Send, TypeOK, apps, output
<1>5. ASSUME NEW d \in Dirs, Receive(d) PROVE TypeOK'
  <2>1. Tail(outbox[d]) \in Seq(Nat) /\ Append(received[d], Head(outbox[d])) \in Seq(Nat)
    BY <1>5, TailSeq, AppendSeq DEF Receive, TypeOK
  <2> QED
    BY <1>5, <2>1 DEF Receive, TypeOK, input
<1>6. ASSUME NEW d \in Dirs, SeeEnd(d) PROVE TypeOK'
  BY <1>6 DEF SeeEnd, TypeOK, input, output
<1>7. ASSUME NEW s \in Sockets, Leave(s) PROVE TypeOK'
  BY <1>7 DEF Leave, TypeOK, input, output
<1>8. CASE Stop
  BY <1>8, CloseEffect DEF Stop, TypeOK, Both, apps
<1>9. CASE UNCHANGED vars
  BY <1>9 DEF vars, TypeOK
<1> QED
  BY <1>1, <1>2, <1>3, <1>4, <1>5, <1>6, <1>7, <1>8, <1>9 DEF Next

(* Type correctness, and the bound on the queue: put blocks at --max-queue *)
(* and nothing else adds to the queue.                                     *)
THEOREM TypeCorrect == Spec => []TypeOK
<1> QED
  BY TypeInit, TypeStep, PTL DEF Spec
-----------------------------------------------------------------------------
(* The pipe *)

(* At the start every place is empty. *)
LEMMA PipeInit == Init => \A d \in Dirs : Pipe(d) /\ WriterLeft(d)
<1> SUFFICES ASSUME Init, NEW d \in Dirs PROVE Pipe(d) /\ WriterLeft(d)
  OBVIOUS
<1>1. /\ open[From(d)] = 1 /\ open[To(d)] = 1 /\ sent[d] = 0 /\ inbox[d] = <<>>
      /\ reader[d] = "new" /\ rheld[d] = 0 /\ queue[d] = <<>> /\ writer[d] = "new"
      /\ wheld[d] = 0 /\ outbox[d] = <<>> /\ received[d] = <<>>
  BY Ends DEF Init, Both
<1> QED
  BY <1>1, EmptyIsSeq, FollowsEmpty DEF Pipe, OutPart, EndPart, Live, WriterPart, QueuePart,
     ReaderPart, Past, Taken, ReadSoFar, WriterLeft, Writing, Reading

(* The types of what the pipe of direction d is made of. *)
LEMMA PipeType ==
  ASSUME TypeOK, NEW d \in Dirs
  PROVE  /\ open[From(d)] \in {0, 1} /\ open[To(d)] \in {0, 1}
         /\ sent[d] \in Nat /\ rheld[d] \in Nat /\ wheld[d] \in Nat
         /\ inbox[d] \in Seq(Nat) /\ queue[d] \in Seq(Nat) /\ outbox[d] \in Seq(Nat)
         /\ received[d] \in Seq(Nat)
         /\ Count(inbox[d]) \in Nat /\ Count(queue[d]) \in Nat /\ Count(outbox[d]) \in Nat
         /\ Count(received[d]) \in Nat
         /\ reader[d] \in {"new", "read", "put", "putEof", "done"}
         /\ writer[d] \in {"new", "take", "write", "close", "done"}
  BY Ends, LenProperties DEF TypeOK, Count

(* The same of the counters of direction d. *)
LEMMA CounterType ==
  ASSUME TypeOK, NEW d \in Dirs
  PROVE  Past(d) \in Nat /\ Taken(d) \in Nat /\ ReadSoFar(d) \in Nat
<1>1. Count(received[d]) \in Nat /\ Count(outbox[d]) \in Nat /\ Count(queue[d]) \in Nat
  BY PipeType
<1>2. Past(d) \in Nat
  BY <1>1 DEF Past
<1>3. Taken(d) \in Nat
  BY <1>2 DEF Taken
<1> QED
  BY <1>1, <1>2, <1>3 DEF ReadSoFar

(* A step that closes the socket direction d writes to. *)
LEMMA PipeIsCut ==
  ASSUME TypeOK, NEW d \in Dirs, Pipe(d), open'[To(d)] = 0,
         sent'[d] = sent[d], received'[d] = received[d],
         outbox'[d] = outbox[d] \/ outbox'[d] = <<>>,
         EndPart(d)'
  PROVE  Pipe(d)'
<1>1. OutPart(d)'
  <2>1. Count(received[d]) \in Nat /\ Count(outbox[d]) \in Nat /\ sent[d] \in Nat
    BY PipeType
  <2>2. CASE outbox'[d] = outbox[d]
    BY <2>2 DEF Pipe, OutPart, Past
  <2>3. CASE outbox'[d] = <<>>
    <3>1. Past(d)' = Count(received[d]) /\ Count(received[d]) <= sent[d]
      BY <2>1, <2>3, EmptyIsSeq DEF Pipe, OutPart, Past
    <3> QED
      BY <2>3, <3>1, FollowsEmpty DEF Pipe, OutPart
  <2> QED
    BY <2>2, <2>3
<1> QED
  BY <1>1 DEF Pipe, Live

(* A step that does not touch direction d. *)
LEMMA PipeIsLeft ==
  ASSUME NEW d \in Dirs, Pipe(d), open'[From(d)] = open[From(d)], open'[To(d)] = open[To(d)],
         sent'[d] = sent[d], inbox'[d] = inbox[d], reader'[d] = reader[d], rheld'[d] = rheld[d],
         queue'[d] = queue[d], writer'[d] = writer[d], wheld'[d] = wheld[d],
         outbox'[d] = outbox[d], received'[d] = received[d]
  PROVE  Pipe(d)'
  BY DEF Pipe, OutPart, EndPart, Live, WriterPart, QueuePart, ReaderPart, Past, Taken, ReadSoFar

(* Every step keeps the numbers consecutive from place to place. *)
LEMMA PipeStep == IInv /\ [Next]_vars => \A d \in Dirs : Pipe(d)'
<1> SUFFICES ASSUME TypeOK, \A d \in Dirs : Pipe(d), Unstarted, [Next]_vars, NEW d \in Dirs
             PROVE  Pipe(d)'
  BY DEF IInv
<1> USE DEF Writing, Reading
<1>0. /\ Pipe(d) /\ From(d) \in Sockets /\ To(d) \in Sockets
      /\ Past(d) \in Nat /\ Taken(d) \in Nat /\ ReadSoFar(d) \in Nat
  BY Ends, CounterType
<1>1. CASE Acceptor
  <2>1. CASE Connect
    <3>1. /\ reader[d] = "new" /\ writer[d] = "new" /\ reader'[d] = "read" /\ writer'[d] = "take"
          /\ UNCHANGED <<open, sent, inbox, rheld, queue, wheld, outbox, received>>
      BY <2>1 DEF Connect, Both, apps, Unstarted
    <3>2. Past(d)' = Past(d) /\ Taken(d)' = Taken(d) /\ ReadSoFar(d)' = ReadSoFar(d)
      BY <3>1 DEF Past, Taken, ReadSoFar
    <3> QED
      BY <1>0, <3>1, <3>2 DEF Pipe, OutPart, EndPart, Live, WriterPart, QueuePart, ReaderPart
  <2>2. CASE ConnectFails
    BY <1>0, <2>2, PipeIsLeft DEF ConnectFails, apps, input, output
  <2> QED
    BY <1>1, <2>1, <2>2 DEF Acceptor
<1>10. ASSUME Stop \/ \E e \in Dirs : CloseBoth(e) PROVE Pipe(d)'
  <2>1. Close(Sockets) /\ sent' = sent /\ received' = received
    BY <1>10 DEF Stop, CloseBoth, apps
  <2>2. open'[To(d)] = 0 /\ EndPart(d)' /\ (outbox'[d] = outbox[d] \/ outbox'[d] = <<>>)
    BY <1>0, <2>1, CloseEffect DEF EndPart
  <2> QED
    BY <1>0, <2>1, <2>2, PipeIsCut
<1>2. ASSUME NEW e \in Dirs, e # d, Reader(e) \/ Writer(e) \/ Send(e) \/ Receive(e) \/ SeeEnd(e)
      PROVE  Pipe(d)'
  <2>1. CASE ReadEnds(e)
    <3>1. Close({From(e)}) /\ From(e) = To(d) /\ {From(e)} \in SUBSET Sockets /\ From(d) # To(d)
      BY <1>2, <2>1, Ends DEF ReadEnds
    <3>2. /\ open'[To(d)] = 0 /\ open'[From(d)] = open[From(d)] /\ inbox'[d] = inbox[d]
          /\ outbox'[d] = outbox[d] \/ outbox'[d] = <<>>
      BY <1>0, <3>1, CloseEffect
    <3>3. reader'[d] = reader[d] /\ sent' = sent /\ received' = received
      BY <1>2, <2>1 DEF ReadEnds, TypeOK, apps
    <3> QED
      BY <1>0, <3>2, <3>3, PipeIsCut DEF Pipe, EndPart
  <2>2. CASE ReadChunk(e) \/ PutChunk(e) \/ PutEof(e)
    BY <1>0, <1>2, <2>2, PipeIsLeft DEF ReadChunk, PutChunk, PutEof, Enqueue, TypeOK, apps, output
  <2>3. CASE Take(e) \/ WriteChunk(e) \/ WriteFails(e)
    BY <1>0, <1>2, <2>3, PipeIsLeft DEF Take, WriteChunk, WriteFails, TypeOK, apps, input
  <2>4. CASE Send(e) \/ Receive(e) \/ SeeEnd(e)
    BY <1>0, <1>2, <2>4, PipeIsLeft DEF Send, Receive, SeeEnd, TypeOK, apps, input, output
  <2> QED
    BY <1>2, <2>1, <2>2, <2>3, <2>4, <1>10 DEF Reader, Writer
<1>3. CASE ReadChunk(d)
  <2>1. /\ reader[d] = "read" /\ open[From(d)] = 1 /\ inbox[d] # <<>> /\ reader'[d] = "put"
        /\ inbox'[d] = Tail(inbox[d]) /\ rheld'[d] = Head(inbox[d])
        /\ UNCHANGED <<open, sent, queue, writer, wheld, outbox, received>>
    BY <1>3 DEF ReadChunk, TypeOK, apps, output
  <2>2. Count(inbox[d]) \in Nat /\ Count(inbox'[d]) = Count(inbox[d]) - 1
    BY <2>1, PipeType, TailSeq
  <2>3. /\ Past(d)' = Past(d) /\ Taken(d)' = Taken(d) /\ ReadSoFar(d)' = ReadSoFar(d) + 1
    BY <1>0, <2>1, PipeType DEF Past, Taken, ReadSoFar
  <2>4. ReaderPart(d) => ReaderPart(d)'
    <3>1. ReaderPart(d) => Head(inbox[d]) = ReadSoFar(d) + 1 /\ Follows(inbox'[d], ReadSoFar(d) + 1)
      BY <1>0, <2>1, PipeType, FollowsTail DEF ReaderPart
    <3> QED
      BY <1>0, <2>1, <2>2, <2>3, <3>1, PipeType DEF ReaderPart
  <2> QED
    BY <1>0, <2>1, <2>3, <2>4 DEF Pipe, OutPart, EndPart, Live, WriterPart, QueuePart
<1>4. CASE ReadEnds(d)
  <2>1. Close({From(d)}) /\ {From(d)} \in SUBSET Sockets /\ From(d) # To(d)
    BY <1>4, Ends DEF ReadEnds
  <2>2. /\ open'[From(d)] = 0 /\ open'[To(d)] = open[To(d)] /\ inbox'[d] = <<>>
        /\ outbox'[d] = outbox[d]
    BY <1>0, <2>1, CloseEffect
  <2>3. /\ reader[d] = "read" /\ reader'[d] = "putEof"
        /\ UNCHANGED <<sent, rheld, queue, writer, wheld, received>>
    BY <1>4 DEF ReadEnds, apps, TypeOK
  <2> QED
    BY <1>0, <2>2, <2>3, PipeType DEF Pipe, OutPart, EndPart, Live, WriterPart, QueuePart,
       ReaderPart, Past, Taken, ReadSoFar
<1>5. CASE PutChunk(d)
  <2>1. /\ reader[d] = "put" /\ reader'[d] = "read" /\ rheld'[d] = 0
        /\ queue'[d] = Append(queue[d], rheld[d])
        /\ UNCHANGED <<open, sent, inbox, writer, wheld, outbox, received>>
    BY <1>5 DEF PutChunk, Enqueue, TypeOK, apps, output
  <2>2. Count(queue'[d]) = Count(queue[d]) + 1
    BY <2>1, PipeType, AppendSeq
  <2>3. /\ Past(d)' = Past(d) /\ Taken(d)' = Taken(d) /\ ReadSoFar(d)' = ReadSoFar(d)
    BY <1>0, <2>1, <2>2, PipeType DEF Past, Taken, ReadSoFar
  <2>4. QueuePart(d) /\ ReaderPart(d) => QueuePart(d)' /\ ReaderPart(d)'
    <3>1. ReaderPart(d) => rheld[d] = Taken(d) + Count(queue[d]) + 1
      BY <1>0, <2>1, PipeType DEF ReaderPart, ReadSoFar
    <3>2. QueuePart(d) /\ ReaderPart(d) => Follows(queue'[d], Taken(d))
      BY <1>0, <2>1, <3>1, PipeType, FollowsAppend DEF QueuePart
    <3>3. ReaderPart(d) => Taken(d) + Count(queue'[d]) <= sent[d]
      BY <1>0, <2>1, <2>2, PipeType DEF ReaderPart, ReadSoFar
    <3> QED
      BY <1>0, <2>1, <2>2, <2>3, <3>2, <3>3 DEF QueuePart, ReaderPart
  <2> QED
    BY <1>0, <2>1, <2>3, <2>4 DEF Pipe, OutPart, EndPart, Live, WriterPart
<1>6. CASE PutEof(d)
  <2>1. /\ reader[d] = "putEof" /\ reader'[d] = "done" /\ queue'[d] = Append(queue[d], Eof)
        /\ UNCHANGED <<open, sent, inbox, rheld, writer, wheld, outbox, received>>
    BY <1>6 DEF PutEof, Enqueue, TypeOK, apps, output
  <2>2. QueuePart(d) => QueuePart(d)'
    BY <1>0, <2>1, PipeType, DrainsFrom DEF QueuePart, Taken, Past
  <2> QED
    BY <1>0, <2>1, <2>2 DEF Pipe, OutPart, EndPart, Live, WriterPart, ReaderPart, Past
<1>7. CASE Take(d)
  <2>1. /\ writer[d] = "take" /\ queue[d] # <<>> /\ queue'[d] = Tail(queue[d])
        /\ wheld'[d] = Head(queue[d])
        /\ writer'[d] = IF Head(queue[d]) = Eof THEN "close" ELSE "write"
        /\ UNCHANGED <<open, sent, inbox, reader, rheld, outbox, received>>
    BY <1>7 DEF Take, TypeOK, apps, input
  <2>2. Past(d)' = Past(d) /\ Taken(d) = Past(d)
    BY <1>0, <2>1, PipeType DEF Past, Taken
  <2>3. CASE Head(queue[d]) = Eof
    BY <1>0, <2>1, <2>2, <2>3 DEF Pipe, OutPart, EndPart, Live
  <2>4. CASE Head(queue[d]) # Eof
    <3>1. /\ writer'[d] = "write" /\ Count(queue'[d]) = Count(queue[d]) - 1
          /\ Taken(d)' = Taken(d) + 1 /\ ReadSoFar(d)' = ReadSoFar(d)
      BY <1>0, <2>1, <2>2, <2>4, PipeType, TailSeq DEF Taken, ReadSoFar
    <3>2. /\ QueuePart(d) => QueuePart(d)' /\ WriterPart(d)'
          /\ ReaderPart(d) => ReaderPart(d)'
      <4>1. CASE reader[d] = "done"
        BY <1>0, <2>1, <2>2, <2>4, <3>1, <4>1, PipeType, DrainsTail
           DEF QueuePart, WriterPart, ReaderPart
      <4>2. CASE reader[d] # "done"
        <5>1. QueuePart(d) => Head(queue[d]) = Taken(d) + 1 /\ Follows(queue'[d], Taken(d) + 1)
          BY <1>0, <2>1, <4>2, PipeType, FollowsTail DEF QueuePart
        <5>2. Count(queue[d]) >= 1
          BY <2>1, PipeType, TailSeq
        <5> QED
          BY <1>0, <2>1, <2>2, <3>1, <4>2, <5>1, <5>2, PipeType
             DEF QueuePart, WriterPart, ReaderPart
      <4> QED
        BY <4>1, <4>2
    <3> QED
      BY <1>0, <2>1, <2>2, <3>1, <3>2 DEF Pipe, OutPart, EndPart, Live
  <2> QED
    BY <2>3, <2>4
<1>8. CASE WriteChunk(d)
  <2>1. /\ writer[d] = "write" /\ writer'[d] = "take" /\ open[To(d)] = 1 /\ wheld'[d] = 0
        /\ outbox'[d] = Append(outbox[d], wheld[d])
        /\ UNCHANGED <<open, sent, inbox, reader, rheld, queue, received>>
    BY <1>8 DEF WriteChunk, TypeOK, apps, input
  <2>2. Count(outbox'[d]) = Count(outbox[d]) + 1
    BY <2>1, PipeType, AppendSeq
  <2>3. Past(d)' = Past(d) + 1 /\ Taken(d)' = Taken(d) /\ ReadSoFar(d)' = ReadSoFar(d)
    BY <1>0, <2>1, <2>2, PipeType DEF Past, Taken, ReadSoFar
  <2>4. wheld[d] = Count(received[d]) + Count(outbox[d]) + 1 /\ wheld[d] <= sent[d]
    BY <1>0, <2>1 DEF Pipe, Live, WriterPart, Past
  <2>5. OutPart(d)'
    BY <1>0, <2>1, <2>3, <2>4, PipeType, FollowsAppend DEF Pipe, OutPart, Past
  <2> QED
    BY <1>0, <2>1, <2>3, <2>5 DEF Pipe, EndPart, Live, WriterPart, QueuePart, ReaderPart
<1>9. CASE WriteFails(d)
  <2>1. writer'[d] = "close" /\ UNCHANGED <<open, sent, inbox, reader, rheld, queue, outbox, received>>
    BY <1>9 DEF WriteFails, TypeOK, apps, input
  <2> QED
    BY <1>0, <2>1 DEF Pipe, OutPart, EndPart, Live, Past
<1>11. CASE Send(d)
  <2>1. /\ open[From(d)] = 1 /\ sent'[d] = sent[d] + 1
        /\ inbox'[d] = Append(inbox[d], sent[d] + 1)
        /\ UNCHANGED <<open, reader, rheld, queue, writer, wheld, outbox, received>>
    BY <1>11 DEF Send, TypeOK, apps, output
  <2>2. Count(inbox'[d]) = Count(inbox[d]) + 1
    BY <2>1, PipeType, AppendSeq
  <2>3. Past(d)' = Past(d) /\ Taken(d)' = Taken(d) /\ ReadSoFar(d)' = ReadSoFar(d)
    BY <2>1 DEF Past, Taken, ReadSoFar
  <2>4. reader[d] \in Reading
    BY <1>0, <2>1 DEF Pipe, EndPart
  <2>5. ReaderPart(d) => ReaderPart(d)'
    <3>1. ReaderPart(d) => Follows(inbox'[d], ReadSoFar(d))
      BY <1>0, <2>1, <2>4, PipeType, FollowsAppend DEF ReaderPart
    <3> QED
      BY <1>0, <2>1, <2>2, <2>3, <3>1, PipeType DEF ReaderPart
  <2>6. sent[d] \in Nat /\ Count(queue[d]) \in Nat /\ wheld[d] \in Nat
    BY PipeType
  <2>7. \A n \in Nat : n <= sent[d] => n <= sent'[d]
    BY <2>1, <2>6
  <2>8. OutPart(d)' /\ EndPart(d)'
    BY <1>0, <2>1, <2>3, <2>4, <2>7 DEF Pipe, OutPart, EndPart
  <2>9. WriterPart(d) => WriterPart(d)'
    BY <2>1, <2>3, <2>6, <2>7 DEF WriterPart
  <2>10. QueuePart(d) => QueuePart(d)'
    <3>1. Taken(d) + Count(queue[d]) \in Nat
      BY <1>0, <2>6
    <3> QED
      BY <2>1, <2>3, <2>4, <2>7, <3>1 DEF QueuePart
  <2> QED
    BY <1>0, <2>1, <2>5, <2>8, <2>9, <2>10 DEF Pipe, Live
<1>12. CASE Receive(d)
  <2>1. /\ outbox[d] # <<>> /\ outbox'[d] = Tail(outbox[d])
        /\ received'[d] = Append(received[d], Head(outbox[d]))
        /\ UNCHANGED <<open, sent, inbox, reader, rheld, queue, writer, wheld>>
    BY <1>12 DEF Receive, TypeOK, input
  <2>2. /\ Head(outbox[d]) = Count(received[d]) + 1 /\ Follows(outbox'[d], Count(received[d]) + 1)
    BY <1>0, <2>1, PipeType, FollowsTail DEF Pipe, OutPart
  <2>3. /\ Count(received'[d]) = Count(received[d]) + 1 /\ Count(outbox'[d]) = Count(outbox[d]) - 1
    BY <2>1, PipeType, TailSeq, AppendSeq
  <2>4. Follows(received'[d], 0)
    BY <1>0, <2>1, <2>2, PipeType, FollowsAppend DEF Pipe, OutPart
  <2>5. Past(d)' = Past(d)
    <3>1. Count(received[d]) \in Nat /\ Count(outbox[d]) \in Nat
      BY PipeType
    <3> QED
      BY <2>3, <3>1 DEF Past
  <2>6. Taken(d)' = Taken(d) /\ ReadSoFar(d)' = ReadSoFar(d)
    BY <2>1, <2>5 DEF Taken, ReadSoFar
  <2> QED
    BY <1>0, <2>1, <2>2, <2>3, <2>4, <2>5, <2>6
       DEF Pipe, OutPart, EndPart, Live, WriterPart, QueuePart, ReaderPart
<1>13. CASE SeeEnd(d) \/ UNCHANGED vars \/ \E s \in Sockets : Leave(s)
  BY <1>0, <1>13, PipeIsLeft DEF SeeEnd, Leave, vars, input, output
<1> QED
  BY <1>1, <1>2, <1>3, <1>4, <1>5, <1>6, <1>7, <1>8, <1>9, <1>10, <1>11, <1>12, <1>13
     DEF Next, Reader, Writer
-----------------------------------------------------------------------------
(* The invariant *)

(* No thread runs before Connect starts all four. *)
LEMMA UnstartedStep == TypeOK /\ Unstarted /\ [Next]_vars => Unstarted'
<1> SUFFICES ASSUME TypeOK, Unstarted, [Next]_vars, conn' = "accepted", stopped' = 0,
                    NEW d \in Dirs
             PROVE  reader'[d] = "new" /\ writer'[d] = "new"
  BY DEF Unstarted
<1>0. conn = "accepted" /\ stopped = 0
  BY DEF Next, vars, Acceptor, Connect, ConnectFails, Stop, Reader, ReadChunk, ReadEnds, PutChunk,
     PutEof, Writer, Take, WriteChunk, WriteFails, CloseBoth, Send, Receive, SeeEnd, Leave
<1>1. \A e \in Dirs : reader[e] = "new" /\ writer[e] = "new"
  BY <1>0 DEF Unstarted
<1>2. ASSUME NEW e \in Dirs PROVE ~Reader(e) /\ ~Writer(e)
  BY <1>1 DEF Reader, Writer, ReadChunk, ReadEnds, PutChunk, PutEof, Take, WriteChunk,
     WriteFails, CloseBoth
<1>3. UNCHANGED <<reader, writer>>
  BY <1>2 DEF Next, vars, Acceptor, Connect, ConnectFails, Send, Receive, SeeEnd, Leave, Stop,
     input, output
<1> QED
  BY <1>1, <1>3

(* A writer whose sockets are open gives up only on an application that left. *)
LEMMA WriterLeftStep == IInv /\ [Next]_vars => \A d \in Dirs : WriterLeft(d)'
<1> SUFFICES ASSUME IInv, [Next]_vars, NEW d \in Dirs, \A s \in Sockets : open'[s] = 1
             PROVE  writer'[d] \in Writing \/ app'[To(d)] = "closed"
  BY DEF WriterLeft
<1> USE DEF Writing, Reading
<1>0. /\ TypeOK /\ Pipe(d) /\ WriterLeft(d)
      /\ From(d) \in Sockets /\ To(d) \in Sockets
  BY Ends DEF IInv
<1>1. ~Stop /\ (\A e \in Dirs : ~ReadEnds(e) /\ ~CloseBoth(e))
  <2>1. ~Close(Sockets)
    BY <1>0, CloseEffect
  <2>2. ASSUME NEW e \in Dirs PROVE ~Close({From(e)})
    <3>1. From(e) \in Sockets /\ {From(e)} \in SUBSET Sockets
      BY Ends
    <3> QED
      BY <1>0, <3>1, CloseEffect
  <2> QED
    BY <2>1, <2>2 DEF Stop, ReadEnds, CloseBoth
<1>2. open' = open /\ (writer[d] \in Writing \/ app[To(d)] = "closed")
  <2>1. open' = open
    BY <1>1 DEF Next, vars, Acceptor, Connect, ConnectFails, Reader, ReadChunk, PutChunk, PutEof,
       Writer, Take, WriteChunk, WriteFails, Send, Receive, SeeEnd, Leave
  <2> QED
    BY <1>0, <2>1 DEF WriterLeft
<1>3. app[To(d)] = "closed" => app'[To(d)] = "closed"
  <2>1. ASSUME NEW s \in Sockets, Leave(s), app[To(d)] = "closed" PROVE app'[To(d)] = "closed"
    BY <1>0, <2>1 DEF Leave, TypeOK
  <2> QED
    BY <1>1, <2>1 DEF Next, vars, Acceptor, Connect, ConnectFails, Reader, ReadChunk, PutChunk,
       PutEof, Writer, Take, WriteChunk, WriteFails, Send, Receive, SeeEnd, apps
<1>4. CASE Take(d) /\ writer[d] \in Writing
  <2>1. /\ reader[d] # "done" /\ Follows(queue[d], Taken(d)) /\ queue[d] # <<>>
        /\ Taken(d) \in Nat /\ queue[d] \in Seq(Nat)
    BY <1>0, <1>2, <1>4, PipeType, CounterType
       DEF Take, Pipe, EndPart, Live, QueuePart
  <2>2. Head(queue[d]) # Eof
    BY <2>1, FollowsTail DEF Eof
  <2> QED
    BY <1>0, <1>4, <2>2 DEF Take, TypeOK
<1>5. CASE WriteFails(d)
  BY <1>0, <1>2, <1>3, <1>5 DEF WriteFails
<1>6. CASE Connect
  BY <1>6 DEF Connect, Both
<1>7. CASE WriteChunk(d)
  BY <1>0, <1>7 DEF WriteChunk, TypeOK
<1>8. ASSUME NEW e \in Dirs, e # d, Writer(e) PROVE writer'[d] = writer[d]
  BY <1>0, <1>1, <1>8 DEF Writer, Take, WriteChunk, WriteFails, TypeOK
<1>9. \/ Take(d) \/ WriteFails(d) \/ Connect \/ WriteChunk(d) \/ \E e \in Dirs : e # d /\ Writer(e)
      \/ writer' = writer
  BY <1>1 DEF Next, vars, Acceptor, ConnectFails, Reader, ReadChunk, PutChunk, PutEof, Writer,
     Send, Receive, SeeEnd, Leave, output
<1> QED
  BY <1>2, <1>3, <1>4, <1>5, <1>6, <1>7, <1>8, <1>9

(* The invariant holds at the start, ... *)
LEMMA InvInit == Init => IInv
  BY TypeInit, PipeInit DEF IInv, Unstarted, Init, Both

(* ... is kept by every step, ... *)
LEMMA InvStep == IInv /\ [Next]_vars => IInv'
  BY TypeStep, UnstartedStep, PipeStep, WriterLeftStep DEF IInv

(* ... and so holds always. *)
LEMMA Invariance == Spec => []IInv
<1> QED
  BY InvInit, InvStep, PTL DEF Spec

(* Bytes come out in the order they went in, for every queue size, every   *)
(* socket buffer and every interleaving of the four threads with the two   *)
(* applications, the closing of sockets included.                          *)
THEOREM OrderIsKept == Spec => []InOrder
<1>1. IInv => InOrder
  <2> SUFFICES ASSUME IInv, NEW d \in Dirs
               PROVE  /\ Len(received[d]) <= sent[d]
                      /\ \A i \in 1..Len(received[d]) : received[d][i] = i
    BY DEF InOrder
  <2>1. OutPart(d) /\ received[d] \in Seq(Nat)
    BY PipeType DEF IInv, Pipe
  <2>2. Count(received[d]) \in Nat /\ Count(outbox[d]) \in Nat /\ sent[d] \in Nat
    BY PipeType DEF IInv
  <2>3. Count(received[d]) <= sent[d]
    BY <2>1, <2>2 DEF OutPart, Past
  <2>4. ASSUME NEW i \in 1..Len(received[d]) PROVE received[d][i] = i
    <3>1. received[d][i] = 0 + i /\ i \in Int
      BY <2>1 DEF OutPart, Follows
    <3> QED
      BY <3>1
  <2> QED
    BY <2>3, <2>4 DEF Count
<1> QED
  BY <1>1, Invariance, PTL

(* While both sockets are open, nothing is lost on the way to an           *)
(* application that is there.                                              *)
THEOREM NothingLostWhileOpen == Spec => []NoLossWhileOpen
<1>1. IInv => NoLossWhileOpen
  <2> SUFFICES ASSUME IInv, \A s \in Sockets : open[s] = 1, NEW d \in Dirs, app[To(d)] # "closed"
               PROVE  sent[d] = Len(received[d]) + Held(d)
    BY DEF NoLossWhileOpen
  <2> USE DEF Reading, Writing
  <2>1. /\ WriterPart(d) /\ QueuePart(d) /\ ReaderPart(d) /\ reader[d] \in Reading
        /\ open[From(d)] = 1
    BY Ends DEF IInv, WriterLeft, Pipe, EndPart, Live
  <2>2. /\ Count(received[d]) \in Nat /\ Count(outbox[d]) \in Nat /\ Count(queue[d]) \in Nat
        /\ Count(inbox[d]) \in Nat /\ Past(d) \in Nat /\ Taken(d) \in Nat /\ ReadSoFar(d) \in Nat
    BY PipeType, CounterType DEF IInv
  <2>3. Follows(queue[d], Taken(d)) /\ sent[d] = ReadSoFar(d) + Count(inbox[d])
    BY <2>1 DEF QueuePart, ReaderPart
  <2>4. Cardinality({i \in 1..Len(queue[d]) : queue[d][i] # Eof}) = Count(queue[d])
    <3>1. \A i \in 1..Len(queue[d]) : queue[d][i] # Eof
      BY <2>2, <2>3 DEF Follows, Eof
    <3>2. {i \in 1..Len(queue[d]) : queue[d][i] # Eof} = 1..Len(queue[d])
      BY <3>1
    <3>3. ASSUME NEW n \in Nat PROVE Cardinality(1..n) = n
      <4>1. Cardinality(1..n) = IF 1 > n THEN 0 ELSE n - 1 + 1
        BY FS_Interval
      <4> QED
        BY <4>1
    <3> QED
      BY <2>2, <3>2, <3>3 DEF Count
  <2>5. (IF wheld[d] = 0 THEN 0 ELSE 1) = IF writer[d] = "write" THEN 1 ELSE 0
    BY <2>1, <2>2 DEF WriterPart
  <2>6. (IF rheld[d] = 0 THEN 0 ELSE 1) = IF reader[d] = "put" THEN 1 ELSE 0
    <3>1. reader[d] = "put" => ReadSoFar(d) >= 1
      BY <2>2 DEF ReadSoFar
    <3> QED
      BY <2>1, <2>2, <3>1 DEF ReaderPart
  <2>7. Held(d) = Count(outbox[d]) + (IF writer[d] = "write" THEN 1 ELSE 0) + Count(queue[d])
                    + (IF reader[d] = "put" THEN 1 ELSE 0) + Count(inbox[d])
    BY <2>4, <2>5, <2>6 DEF Held, Count
  <2>8. sent[d] = Count(received[d]) + Held(d)
    BY <2>2, <2>3, <2>7 DEF ReadSoFar, Taken, Past
  <2> QED
    BY <2>8 DEF Count
<1> QED
  BY <1>1, Invariance, PTL
-----------------------------------------------------------------------------
(* Each direction implements the stream: the step of a kernel buffer to    *)
(* the application is its Receive, everything in between a stutter.        *)

(* The initial states are initial states of both streams. *)
LEMMA StreamInit == Init => Up!Init /\ Down!Init
  BY DEF Init, Up!Init, Down!Init, Both, Dirs

(* Every step is a send, a receipt of the next chunk, or neither. *)
LEMMA StreamStep ==
  ASSUME IInv, [Next]_vars, NEW d \in Dirs
  PROVE  \/ sent'[d] = sent[d] + 1 /\ received'[d] = received[d]
         \/ /\ Len(received[d]) < sent[d]
            /\ received'[d] = Append(received[d], Len(received[d]) + 1)
            /\ sent'[d] = sent[d]
         \/ UNCHANGED <<sent[d], received[d]>>
<1>0. TypeOK /\ OutPart(d)
  BY DEF IInv, Pipe
<1>1. CASE Send(d)
  BY <1>0, <1>1 DEF Send, TypeOK, apps
<1>2. CASE Receive(d)
  <2>1. /\ outbox[d] # <<>> /\ received'[d] = Append(received[d], Head(outbox[d]))
        /\ sent'[d] = sent[d]
    BY <1>0, <1>2 DEF Receive, TypeOK, input
  <2>2. Head(outbox[d]) = Len(received[d]) + 1
    BY <1>0, <2>1, PipeType, FollowsTail DEF OutPart, Count
  <2>3. /\ Count(received[d]) \in Nat /\ Count(outbox[d]) \in Nat \ {0} /\ sent[d] \in Nat
    BY <1>0, <2>1, PipeType, TailSeq
  <2>4. Count(received[d]) < sent[d]
    BY <1>0, <2>3 DEF OutPart, Past
  <2> QED
    BY <2>1, <2>2, <2>4 DEF Count
<1>3. ASSUME NEW e \in Dirs, e # d, Send(e) \/ Receive(e) PROVE UNCHANGED <<sent[d], received[d]>>
  BY <1>0, <1>3 DEF Send, Receive, TypeOK, apps, input
<1>4. CASE UNCHANGED <<sent, received>>
  BY <1>4
<1>5. \/ \E e \in Dirs : Send(e) \/ Receive(e)
      \/ UNCHANGED <<sent, received>>
  BY DEF Next, vars, Acceptor, Connect, ConnectFails, Stop, Reader, ReadChunk, ReadEnds, PutChunk,
     PutEof, Writer, Take, WriteChunk, WriteFails, CloseBoth, SeeEnd, Leave, apps, input
<1> QED
  BY <1>1, <1>2, <1>3, <1>4, <1>5

(* Whatever the threads and sockets do, each application sees a stream     *)
(* that may be cut and is never reordered, doubled or punctured.           *)
THEOREM StreamsAreImplemented == Spec => ImplementsStream
<1>1. IInv /\ [Next]_vars => [Up!Next]_Up!vars /\ [Down!Next]_Down!vars
  <2> SUFFICES ASSUME IInv, [Next]_vars
               PROVE  [Up!Next]_Up!vars /\ [Down!Next]_Down!vars
    OBVIOUS
  <2>1. [Up!Next]_Up!vars
    BY StreamStep DEF Up!Next, Up!Send, Up!Receive, Up!vars, Dirs
  <2>2. [Down!Next]_Down!vars
    BY StreamStep DEF Down!Next, Down!Send, Down!Receive, Down!vars, Dirs
  <2> QED
    BY <2>1, <2>2
<1> QED
  BY <1>1, StreamInit, Invariance, PTL DEF Spec, ImplementsStream, Up!Spec, Down!Spec
=============================================================================
