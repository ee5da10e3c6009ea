-------------------------- MODULE TcpConnectionProofs --------------------------
(***************************************************************************)
(* A TCP connection and its halves.  The receive half: framing is correct  *)
(* and the buffer is bounded, for any header length, any body lengths and  *)
(* any number of messages, however TCP cuts them up.  The send half: the   *)
(* stream of answers has no gap and every answer is freed exactly once,    *)
(* for any send buffer, however write() cuts them up and whenever the      *)
(* connection is closed.  The connection is the composition of its halves: *)
(* each behaves inside it as its own module says, so what is proved of the *)
(* halves holds of the connection; and the client gets its own bytes back. *)
(***************************************************************************)
EXTENDS TcpConnection, SequenceTheorems, TLAPS

USE FramingConstants

\* The messages lie one behind the other.
Layout ==
    /\ \A k \in 1 .. Len(msgs) :
          /\ Start(k + 1) = msgs[k].at + HeadLen + msgs[k].body
          /\ msgs[k].at + HeadLen + msgs[k].body <= total
    /\ \A j, k \in 1 .. Len(msgs) : j # k => msgs[j].at # msgs[k].at
    /\ Start(1) = 0

\* What each receive state says about the counters.
Phase ==
    /\ state = "IDLE" => processed = 0 /\ expected = 1 /\ iblen = 0
    /\ state = "HEAD" => processed = 0 /\ expected = HeadLen

IInv == TypeOK /\ Layout /\ Phase /\ FrameSync /\ BufferBound /\ RejectedForCause

\* Lengths of bodies are numbers.
LEMMA BodyTypes == \A b \in BodyLens : b \in Nat /\ b \in 0 .. Largest
  OBVIOUS

\* What a message is.
LEMMA FieldTypes == \A m \in Message : m.at \in Nat /\ m.body \in BodyLens
  BY DEF Message

\* What the k-th message is.
LEMMA MessageFields ==
    ASSUME NEW s \in Seq(Message), NEW k \in 1 .. Len(s)
    PROVE  s[k].at \in Nat /\ s[k].body \in 0 .. Largest /\ s[k].body \in Nat
<1>1. s[k] \in Message
  BY ElementOfSeq
<1>2. s[k].at \in Nat /\ s[k].body \in BodyLens
  BY <1>1, FieldTypes
<1> QED
  BY <1>2, BodyTypes, Zenon

\* The invariant of the reading half holds initially.
LEMMA InitIInv == Init => IInv
<1> SUFFICES ASSUME Init PROVE IInv
  OBVIOUS
<1>1. TypeOK
  <2>1. msgs \in Seq(Message) /\ handled \in Seq(Message)
    BY EmptySeq DEF Init
  <2>2. 1 \in 0 .. Largest
    OBVIOUS
  <2> QED
    BY <2>1, <2>2, Zenon DEF Init, TypeOK
<1>2. Len(msgs) = 0 /\ Len(handled) = 0
  BY DEF Init
<1> QED
  BY <1>1, <1>2 DEF Init, IInv, Layout, Phase, FrameSync, BufferBound,
     RejectedForCause, Start, Current, Received

\* A message is laid behind the others.
LEMMA StepClientSend ==
    ASSUME IInv, NEW body \in BodyLens, NEW magic \in BOOLEAN, ClientSend(body, magic)
    PROVE  IInv'
<1> DEFINE m == [at |-> total, body |-> body, magic |-> magic]
<1>1. m \in Message /\ m.at = total /\ m.body = body
  BY DEF IInv, TypeOK, Message
<1>2. /\ msgs \in Seq(Message) /\ Len(msgs) \in Nat
      /\ msgs' \in Seq(Message) /\ Len(msgs') = Len(msgs) + 1
      /\ \A k \in 1 .. Len(msgs) : msgs'[k] = msgs[k]
      /\ msgs'[Len(msgs) + 1] = m
  <2>1. msgs \in Seq(Message) /\ msgs' = Append(msgs, m)
    BY DEF IInv, TypeOK, ClientSend
  <2> HIDE DEF m
  <2> QED
    BY <1>1, <2>1, AppendProperties, LenProperties
<1>a. total \in Nat /\ body \in Nat
  BY DEF IInv, TypeOK
<1>b. /\ total' = total + HeadLen + body
      /\ UNCHANGED <<eof, base, iblen, processed, expected, state, link, handled>>
  BY DEF ClientSend, conn
<1>c. total' \in Nat
  BY <1>a, <1>b
<1>3. /\ total \in Nat /\ body \in Nat /\ total' = total + HeadLen + body /\ total' \in Nat
      /\ UNCHANGED <<eof, base, iblen, processed, expected, state, link, handled>>
  BY <1>a, <1>b, <1>c
<1> HIDE DEF m
<1>4. TypeOK'
  BY <1>2, <1>3 DEF IInv, TypeOK
<1>5. \A k \in 1 .. Len(msgs) : msgs[k].at \in Nat /\ msgs[k].body \in Nat
                               /\ msgs[k].at < total
  <2> SUFFICES ASSUME NEW k \in 1 .. Len(msgs)
               PROVE  msgs[k].at \in Nat /\ msgs[k].body \in Nat /\ msgs[k].at < total
    OBVIOUS
  <2>1. msgs[k].at \in Nat /\ msgs[k].body \in Nat
    BY <1>2, MessageFields
  <2>2. msgs[k].at + HeadLen + msgs[k].body <= total
    BY DEF IInv, Layout
  <2> QED
    BY <2>1, <2>2, <1>a
<1>6. \A k \in 1 .. Len(msgs) + 1 : Start(k)' = Start(k)
  BY <1>1, <1>2 DEF Start
<1>7. \A k \in Nat : k = Len(msgs) + 2 => Start(k)' = total'
  BY <1>2 DEF Start
<1>8. Layout'
  <2>1. ASSUME NEW k \in 1 .. Len(msgs')
        PROVE  /\ Start(k + 1)' = msgs'[k].at + HeadLen + msgs'[k].body
               /\ msgs'[k].at + HeadLen + msgs'[k].body <= total'
    <3>1. CASE k \in 1 .. Len(msgs)
      <4>1. k + 1 \in 1 .. Len(msgs) + 1
        BY <3>1, <1>2
      <4> QED
        <5>1. msgs'[k] = msgs[k] /\ Start(k + 1)' = Start(k + 1)
          BY <3>1, <4>1, <1>2, <1>6
        <5>2. /\ Start(k + 1) = msgs[k].at + HeadLen + msgs[k].body
              /\ msgs[k].at + HeadLen + msgs[k].body <= total
          BY <3>1 DEF IInv, Layout
        <5>3. msgs[k].at + HeadLen + msgs[k].body \in Nat
          BY <3>1, <1>5
        <5>4. total <= total'
          BY <1>a, <1>b
        <5> QED
          BY <5>1, <5>2, <5>3, <5>4, <1>a, <1>c
    <3>2. CASE k = Len(msgs) + 1
      <4>1. k + 1 = Len(msgs) + 2 /\ k + 1 \in Nat
        BY <3>2, <1>2
      <4> QED
        <5>1. Start(k + 1)' = total' /\ msgs'[k].at = total /\ msgs'[k].body = body
          <6>1. msgs'[k] = m
            BY <3>2, <1>2
          <6>2. Start(k + 1)' = total'
            BY <4>1, <1>7
          <6> QED
            BY <6>1, <6>2, <1>1
        <5> QED
          BY <5>1, <1>a, <1>b, <1>c
    <3> QED
      BY <3>1, <3>2, <1>2
  <2>2. ASSUME NEW j \in 1 .. Len(msgs'), NEW k \in 1 .. Len(msgs'), j # k
        PROVE  msgs'[j].at # msgs'[k].at
    <3>1. CASE j \in 1 .. Len(msgs) /\ k \in 1 .. Len(msgs)
      BY <2>2, <3>1, <1>2, Zenon DEF IInv, Layout
    <3>2. CASE j = Len(msgs) + 1 /\ k \in 1 .. Len(msgs)
      BY <3>2, <1>1, <1>2, <1>5
    <3>3. CASE k = Len(msgs) + 1 /\ j \in 1 .. Len(msgs)
      BY <3>3, <1>1, <1>2, <1>5
    <3> QED
      BY <2>2, <3>1, <3>2, <3>3, <1>2
  <2>3. Start(1)' = 0
    BY <1>2, <1>6 DEF IInv, Layout
  <2> QED
    BY <2>1, <2>2, <2>3 DEF Layout
<1>9. Phase' /\ BufferBound'
  BY <1>3 DEF IInv, Phase, BufferBound
<1>10. Len(handled) \in Nat /\ Current \in 1 .. Len(msgs) + 1 /\ Current' = Current
  BY <1>2, <1>3, LenProperties DEF IInv, TypeOK, FrameSync, Current
<1>11. FrameSync'
  <2>1. Len(handled') <= Len(msgs')
    BY <1>2, <1>3, <1>10 DEF IInv, FrameSync
  <2>2. \A k \in 1 .. Len(handled') : handled'[k] = msgs'[k]
    BY <1>2, <1>3, <1>10 DEF IInv, FrameSync
  <2>3. base' = Start(Current)'
    BY <1>3, <1>6, <1>10 DEF IInv, FrameSync
  <2>4. Received' <= total'
    BY <1>3 DEF IInv, TypeOK, FrameSync, Received
  <2>5. (state = "BODY" => /\ Current <= Len(msgs)
                           /\ expected = msgs[Current].body
                           /\ processed = HeadLen)'
    BY <1>2, <1>3, <1>10 DEF IInv, FrameSync
  <2> QED
    BY <2>1, <2>2, <2>3, <2>4, <2>5 DEF FrameSync
<1>12. RejectedForCause'
  BY <1>2, <1>3, <1>10, SMTT(30) DEF IInv, RejectedForCause
<1> QED
  BY <1>4, <1>8, <1>9, <1>11, <1>12 DEF IInv

\* Steps that only close the connection, for a reason that needs no cause.
LEMMA StepClose ==
    ASSUME IInv, NEW why \in {"peer_closed", "error", "timed_out", "stopped"}, Close(why)
    PROVE  IInv'
<1>1. link' = why
      /\ UNCHANGED <<msgs, total, eof, base, iblen, processed, expected, state, handled>>
  BY DEF Close, client
<1>2. TypeOK'
  BY <1>1 DEF IInv, TypeOK
<1>3. Layout' /\ Phase'
  BY <1>1 DEF IInv, Layout, Phase, Start
<1>4. FrameSync' /\ BufferBound'
  BY <1>1 DEF IInv, FrameSync, BufferBound, Start, Current, Received
<1>5. RejectedForCause'
  BY <1>1 DEF RejectedForCause
<1> QED
  BY <1>2, <1>3, <1>4, <1>5 DEF IInv

\* A header can only be found where the current message starts.
LEMMA HeaderIsCurrent ==
    ASSUME IInv, NEW k \in 1 .. Len(msgs), Current <= Len(msgs)
    PROVE  HeaderAt(k) <=> k = Current
<1>1. Current \in 1 .. Len(msgs)
  BY LenProperties DEF IInv, TypeOK, Current
<1>2. base = msgs[Current].at
  BY <1>1 DEF IInv, FrameSync, Start
<1> QED
  BY <1>1, <1>2 DEF IInv, Layout, HeaderAt

\* With some bytes of it in the buffer, there is a current message.
LEMMA CurrentExists ==
    ASSUME IInv, base < total
    PROVE  Current \in 1 .. Len(msgs)
<1>1. Len(handled) \in Nat /\ Len(msgs) \in Nat /\ base \in Nat /\ total \in Nat
  BY LenProperties DEF IInv, TypeOK
<1>2. Current \in Nat /\ Current >= 1
  BY <1>1 DEF Current
<1>3. Current <= Len(msgs)
  BY <1>1, <1>2 DEF IInv, FrameSync, Start
<1> QED
  BY <1>1, <1>2, <1>3

\* tcp_read_io() after a read, with process_io_buffer(): the receive states.
LEMMA StepAfterRead ==
    ASSUME IInv, link = "open", NEW len \in Nat,
           iblen <= len, len <= iblen + expected, base + len <= total,
           AfterRead(len)
    PROVE  IInv'
<1>1. /\ total \in Nat /\ base \in Nat /\ iblen \in Nat /\ processed \in Nat
      /\ expected \in 0 .. Largest /\ expected \in Nat
      /\ processed <= iblen /\ iblen - processed < Largest
  BY DEF IInv, TypeOK, BufferBound
<1>2. /\ Len(msgs) \in Nat /\ Len(handled) \in Nat
      /\ msgs \in Seq(Message) /\ handled \in Seq(Message)
  BY LenProperties DEF IInv, TypeOK
<1>3. CASE ~(len - processed >= expected)
  <2>1. iblen' = len
        /\ UNCHANGED <<msgs, total, eof, base, processed, expected, state, link, handled>>
    BY <1>3 DEF AfterRead, client
  <2>2. TypeOK'
    BY <2>1 DEF IInv, TypeOK
  <2>3. Layout'
    BY <2>1 DEF IInv, Layout, Start
  <2>4. Phase'
    BY <1>1, <1>3, <2>1 DEF IInv, Phase
  <2>5. Current' = Current /\ Start(Current)' = Start(Current)
    BY <2>1 DEF Start, Current
  <2>6. Received' <= total'
    BY <1>1, <2>1 DEF Received
  <2>7. FrameSync'
    BY <2>1, <2>5, <2>6 DEF IInv, FrameSync
  <2>8. BufferBound'
    BY <1>1, <1>3, <2>1 DEF BufferBound
  <2>9. RejectedForCause'
    BY <2>1 DEF RejectedForCause
  <2> QED
    BY <2>2, <2>3, <2>4, <2>7, <2>8, <2>9 DEF IInv
<1>4. CASE len - processed >= expected
  <2> USE <1>4
  <2>1. ProcessIoBuffer(len)
    BY DEF AfterRead
  <2>2. CASE state = "IDLE"
    <3>1. /\ processed' = 0 /\ state' = "HEAD" /\ expected' = HeadLen /\ iblen' = len
          /\ UNCHANGED <<msgs, total, eof, base, link, handled>>
      BY <2>1, <2>2 DEF ProcessIoBuffer, Reset, client
    <3>2. processed = 0 /\ expected = 1 /\ iblen = 0
      BY <2>2 DEF IInv, Phase
    <3>3. HeadLen \in 0 .. Largest
      OBVIOUS
    <3>4. TypeOK'
      BY <3>1, <3>3 DEF IInv, TypeOK
    <3>5. Layout' /\ Phase'
      BY <3>1 DEF IInv, Layout, Phase, Start
    <3>6. Current' = Current /\ Start(Current)' = Start(Current)
      BY <3>1 DEF Start, Current
    <3>7. Received' <= total'
      BY <1>1, <3>1 DEF Received
    <3>8. FrameSync'
      BY <3>1, <3>6, <3>7 DEF IInv, FrameSync
    <3>9. BufferBound'
      BY <1>1, <3>1, <3>2 DEF BufferBound
    <3>10. RejectedForCause'
      BY <3>1 DEF RejectedForCause
    <3> QED
      BY <3>4, <3>5, <3>8, <3>9, <3>10 DEF IInv
  <2>3. CASE state = "HEAD"
    <3>1. processed = 0 /\ expected = HeadLen
      BY <2>3 DEF IInv, Phase
    <3>2. base < total
      BY <1>1, <3>1
    <3>3. PICK n \in 1 .. Len(msgs) : n = Current
      BY <3>2, CurrentExists
    <3>4. \A k \in 1 .. Len(msgs) : HeaderAt(k) <=> k = n
      BY <3>3, <1>2, HeaderIsCurrent
    <3>5. CASE msgs[n].magic
      <4>1. /\ processed' = processed + expected /\ state' = "BODY"
            /\ expected' = msgs[n].body /\ iblen' = len
            /\ UNCHANGED <<msgs, total, eof, base, link, handled>>
        BY <2>1, <2>3, <3>4, <3>5 DEF ProcessIoBuffer, ExpectNext, client
      <4>2. expected' \in 0 .. Largest /\ processed' = HeadLen
        BY <1>2, <3>1, <4>1, MessageFields
      <4>3. TypeOK'
        BY <4>1, <4>2 DEF IInv, TypeOK
      <4>4. Layout'
        BY <4>1 DEF IInv, Layout, Start
      <4>5. Phase'
        BY <4>1 DEF Phase
      <4>6. Current' = Current /\ Start(Current)' = Start(Current)
        BY <4>1 DEF Start, Current
      <4>7. Received' <= total'
        BY <1>1, <4>1 DEF Received
      <4>8. FrameSync'
        BY <3>3, <4>1, <4>2, <4>6, <4>7, <1>2 DEF IInv, FrameSync
      <4>9. BufferBound'
        BY <1>1, <3>1, <4>1, <4>2 DEF BufferBound
      <4>10. RejectedForCause'
        BY <4>1 DEF RejectedForCause
      <4> QED
        BY <4>3, <4>4, <4>5, <4>8, <4>9, <4>10 DEF IInv
    <3>6. CASE ~msgs[n].magic
      <4>1. /\ link' = "rejected"
            /\ UNCHANGED <<msgs, total, eof, base, iblen, processed, expected, state, handled>>
        BY <2>1, <2>3, <3>4, <3>6 DEF ProcessIoBuffer, Close, client
      <4>2. TypeOK'
        BY <4>1 DEF IInv, TypeOK
      <4>3. Layout' /\ Phase'
        BY <4>1, Zenon DEF IInv, Layout, Phase, Start
      <4>4. FrameSync' /\ BufferBound'
        BY <4>1 DEF IInv, FrameSync, BufferBound, Start, Current, Received
      <4>5. RejectedForCause'
        BY <4>1, <3>3, <3>6, <1>2 DEF RejectedForCause, Current
      <4> QED
        BY <4>2, <4>3, <4>4, <4>5 DEF IInv
    <3> QED
      BY <3>5, <3>6
  <2>4. CASE state = "BODY"
    <3>1. PICK n \in 1 .. Len(msgs) : n = Current
      BY <2>4, <1>2 DEF IInv, FrameSync, Current
    <3>2. expected = msgs[n].body /\ processed = HeadLen /\ base = msgs[n].at
      BY <2>4, <3>1, <1>2 DEF IInv, FrameSync, Start
    <3>3. \A k \in 1 .. Len(msgs) : HeaderAt(k) <=> k = n
      BY <3>1, <1>2, HeaderIsCurrent
    <3>4. /\ handled' = Append(handled, msgs[n])
          /\ ShrinkProcessed(len, "HEAD", HeadLen)
          /\ UNCHANGED <<msgs, total, eof, link>>
      BY <2>1, <2>4, <3>3 DEF ProcessIoBuffer, client
    <3>5. /\ processed' = 0 /\ state' = "HEAD" /\ expected' = HeadLen
          /\ iblen' = len - (processed + expected)
          /\ base' = base + processed + expected
      BY <1>1, <3>4 DEF ShrinkProcessed, SdsRange
    <3>6. msgs[n] \in Message
      BY <1>2, ElementOfSeq
    <3>7. /\ handled' \in Seq(Message) /\ Len(handled') = Len(handled) + 1
          /\ \A k \in 1 .. Len(handled) : handled'[k] = handled[k]
          /\ handled'[Len(handled) + 1] = msgs[n]
      BY <1>2, <3>4, <3>6, AppendProperties
    <3>8. iblen' \in Nat /\ base' \in Nat /\ HeadLen \in 0 .. Largest
      BY <1>1, <3>5
    <3>9. TypeOK'
      BY <3>4, <3>5, <3>7, <3>8 DEF IInv, TypeOK
    <3>10. Layout' /\ Phase'
      BY <3>4, <3>5 DEF IInv, Layout, Phase, Start
    <3>11. n = Len(handled) + 1 /\ Current' = n + 1 /\ n + 1 \in Nat
      BY <3>1, <3>7, <1>2 DEF Current
    <3>12. base' = Start(Current)'
      <4>1. Start(n + 1) = msgs[n].at + HeadLen + msgs[n].body
        BY DEF IInv, Layout
      <4>2. Start(Current)' = Start(n + 1)
        BY <3>4, <3>11 DEF Start
      <4> QED
        BY <3>2, <3>5, <4>1, <4>2
    <3>13. FrameSync'
      <4>1. Len(handled') <= Len(msgs')
        BY <3>4, <3>7, <3>11, <1>2
      <4>2. \A k \in 1 .. Len(handled') : handled'[k] = msgs'[k]
        BY <3>4, <3>7, <3>11, <1>2 DEF IInv, FrameSync
      <4>3. Received' <= total'
        BY <1>1, <3>4, <3>5 DEF Received
      <4> QED
        BY <3>5, <3>12, <4>1, <4>2, <4>3 DEF FrameSync
    <3>14. BufferBound'
      BY <1>1, <3>5 DEF BufferBound
    <3>15. RejectedForCause'
      BY <3>4 DEF RejectedForCause
    <3> QED
      BY <3>9, <3>10, <3>13, <3>14, <3>15 DEF IInv
  <2> QED
    BY <2>2, <2>3, <2>4 DEF IInv, TypeOK
<1> QED
  BY <1>3, <1>4

\* Every step keeps the invariant.
LEMMA NextIInv == IInv /\ [Next]_vars => IInv'
<1> SUFFICES ASSUME IInv, [Next]_vars PROVE IInv'
  OBVIOUS
<1>a. /\ base \in Nat /\ iblen \in Nat /\ expected \in Nat
      /\ Received = base + iblen /\ Received <= total
  BY DEF IInv, TypeOK, FrameSync, Received
<1>1. ASSUME NEW body \in BodyLens, NEW magic \in BOOLEAN, ClientSend(body, magic)
      PROVE  IInv'
  BY <1>1, StepClientSend
<1>2. CASE ClientClose
  <2>1. eof' = TRUE
        /\ UNCHANGED <<msgs, total, base, iblen, processed, expected, state, link, handled>>
    BY <1>2 DEF ClientClose, conn
  <2>2. TypeOK'
    BY <2>1 DEF IInv, TypeOK
  <2>3. Layout' /\ Phase'
    BY <2>1 DEF IInv, Layout, Phase, Start
  <2>4. FrameSync' /\ BufferBound' /\ RejectedForCause'
    BY <2>1 DEF IInv, FrameSync, BufferBound, RejectedForCause, Start, Current, Received
  <2> QED
    BY <2>2, <2>3, <2>4 DEF IInv
<1>3. ASSUME NEW r \in 1 .. Largest, ReadSome(r) PROVE IInv'
  <2>1. /\ link = "open" /\ r <= expected /\ Received + r <= total
        /\ AfterRead(iblen + r)
    BY <1>3 DEF ReadSome
  <2>2. /\ iblen + r \in Nat /\ iblen <= iblen + r /\ iblen + r <= iblen + expected
        /\ base + (iblen + r) <= total
    BY <1>a, <2>1
  <2> QED
    BY <2>1, <2>2, StepAfterRead
<1>4. CASE ReadNothing
  <2>1. /\ iblen <= iblen /\ iblen <= iblen + expected /\ base + iblen <= total
    BY <1>a
  <2>2. CASE Close("peer_closed")
    BY <1>4, <2>2, StepClose DEF ReadNothing
  <2>3. CASE link = "open" /\ AfterRead(iblen)
    BY <1>a, <2>1, <2>3, StepAfterRead
  <2> QED
    BY <1>4, <2>2, <2>3 DEF ReadNothing
<1>5. CASE ReadZero \/ ReadError \/ Timeout \/ WorkerStop
  BY <1>5, StepClose DEF ReadZero, ReadError, Timeout, WorkerStop
<1>6. CASE UNCHANGED vars
  <2>1. UNCHANGED <<msgs, total, eof, base, iblen, processed, expected, state, link, handled>>
    BY <1>6 DEF vars, client, conn
  <2>2. TypeOK' /\ Layout' /\ Phase'
    BY <2>1 DEF IInv, TypeOK, Layout, Phase, Start
  <2>3. FrameSync' /\ BufferBound' /\ RejectedForCause'
    BY <2>1 DEF IInv, FrameSync, BufferBound, RejectedForCause, Start, Current, Received
  <2> QED
    BY <2>2, <2>3 DEF IInv
<1> QED
  BY <1>1, <1>2, <1>3, <1>4, <1>5, <1>6 DEF Next

\* The inductive invariant holds in every reachable state.
THEOREM Invariance == Spec => []IInv
  BY InitIInv, NextIInv, PTL DEF Spec

(* However the stream is cut into reads, the requests handed to            *)
(* process_request are the client's messages in order, and the buffer      *)
(* always starts at a message boundary.                                    *)
THEOREM Safety_FrameSync == Spec => []FrameSync
<1>1. IInv => FrameSync
  BY DEF IInv
<1> QED
  BY <1>1, Invariance, PTL

(* sdslen - _bytes_processed never wraps, and less than one longest frame  *)
(* is ever buffered beyond what was processed.                             *)
THEOREM Safety_BufferBound == Spec => []BufferBound
<1>1. IInv => BufferBound
  BY DEF IInv
<1> QED
  BY <1>1, Invariance, PTL

(* The magic-number check refuses a connection only for a header that the  *)
(* client itself sent wrong.                                               *)
THEOREM Safety_RejectedForCause == Spec => []RejectedForCause
<1>1. IInv => RejectedForCause
  BY DEF IInv
<1> QED
  BY <1>1, Invariance, PTL

(* The receive state and its counters keep their types; in particular      *)
(* _bytes_expected never exceeds the longest frame.                        *)
THEOREM Safety_TypeOK == Spec => []TypeOK
<1>1. IInv => TypeOK
  BY DEF IInv
<1> QED
  BY <1>1, Invariance, PTL

------------------------------------------------------------------------------
(* The send half, ReplyWriter, as the connection instantiates it.          *)

\* The list holds the replies added last, numbered and placed one behind the
\* other; a reply that is partly written is the first one.
Chain ==
    /\ Len(replies) <= added
    /\ \A i \in 1 .. Len(replies) : replies[i].id = added - Len(replies) + i
    /\ \A i \in 1 .. Len(replies) :
          replies[i].at + replies[i].size
              = IF i = Len(replies) THEN echoed ELSE replies[i + 1].at
    /\ (link = "open") => listSize = Len(replies)

\* Only an open connection has replies, and only such a one is being written.
Life ==
    /\ ~(link = "open") => replies = <<>>
    /\ pc = "write" => (link = "open")

WInv == W!TypeOK /\ Chain /\ Life /\ W!StreamIntact /\ W!FreedOnce

\* The types of a reply's fields.
LEMMA ReplyFields ==
    ASSUME W!ReplyConstants, NEW r \in W!Reply
    PROVE  /\ r.id \in Nat /\ r.at \in Nat /\ r.size \in Nat
           /\ r.size \in {HeadLen + body : body \in BodyLens}
BY DEF W!Reply, W!ReplyConstants

\* What a list of replies looks like to the provers.
LEMMA ListFacts ==
    ASSUME W!ReplyConstants, NEW q \in Seq(W!Reply)
    PROVE  /\ Len(q) \in Nat
           /\ q = <<>> <=> Len(q) = 0
           /\ Head(q) = q[1]
           /\ \A i \in 1 .. Len(q) :
                 /\ q[i] \in W!Reply
                 /\ q[i].id \in Nat /\ q[i].at \in Nat /\ q[i].size \in Nat
<1>1. Len(q) \in Nat /\ Head(q) = q[1]
  BY LenProperties
<1>2. q = <<>> <=> Len(q) = 0
  BY EmptySeq
<1>3. \A i \in 1 .. Len(q) : q[i] \in W!Reply
  BY ElementOfSeq
<1> QED
  BY <1>1, <1>2, <1>3, ReplyFields

\* The numbers of consecutively numbered replies that end with reply n.
LEMMA LastNumbers ==
    ASSUME W!ReplyConstants, NEW q \in Seq(W!Reply), NEW n \in Nat,
           \A i \in 1 .. Len(q) : q[i].id = n - Len(q) + i,
           NEW k \in Nat
    PROVE  k \in {q[i].id : i \in 1 .. Len(q)} <=> n - Len(q) < k /\ k <= n
<1>1. Len(q) \in Nat
  BY ListFacts
<1>2. ASSUME k \in {q[i].id : i \in 1 .. Len(q)} PROVE n - Len(q) < k /\ k <= n
  <2>1. PICK i \in 1 .. Len(q) : k = q[i].id
    BY <1>2
  <2>2. k = n - Len(q) + i
    BY <2>1
  <2> QED
    BY <1>1, <2>2
<1>3. ASSUME n - Len(q) < k, k <= n PROVE k \in {q[i].id : i \in 1 .. Len(q)}
  <2> DEFINE j == k - (n - Len(q))
  <2>1. j \in 1 .. Len(q) /\ k = n - Len(q) + j
    BY <1>1, <1>3
  <2>2. q[j].id = k
    BY <2>1
  <2> QED
    BY <2>1, <2>2
<1> QED
  BY <1>2, <1>3

\* Freed are the replies before those in the list.
Freed(q, n, f) ==
    \A k \in 1 .. MaxMsgs : f[k] = IF k <= n - Len(q) THEN 1 ELSE 0

\* Freed are the replies that are not in the list, as FreedOnce says.
Unlisted(q, n, f) ==
    \A k \in 1 .. MaxMsgs :
        f[k] = IF k <= n /\ k \notin {q[i].id : i \in 1 .. Len(q)} THEN 1 ELSE 0

\* It is the same for a list that ends with the last reply added.
LEMMA FreedIs ==
    ASSUME W!ReplyConstants, NEW q \in Seq(W!Reply), NEW n \in Nat, NEW f,
           \A i \in 1 .. Len(q) : q[i].id = n - Len(q) + i
    PROVE  Freed(q, n, f) <=> Unlisted(q, n, f)
<1>1. Len(q) \in Nat
  BY ListFacts
<1>2. ASSUME NEW k \in 1 .. MaxMsgs
      PROVE  k <= n /\ k \notin {q[i].id : i \in 1 .. Len(q)} <=> k <= n - Len(q)
  <2>1. k \in Nat
    BY DEF W!ReplyConstants
  <2>2. k \in {q[i].id : i \in 1 .. Len(q)} <=> n - Len(q) < k /\ k <= n
    BY <2>1, LastNumbers, Zenon
  <2> QED
    BY <1>1, <2>1, <2>2
<1> QED
  BY <1>2 DEF Freed, Unlisted

\* FreedOnce and Freed agree before a step, and after it.
LEMMA FreedNow ==
    ASSUME W!ReplyConstants, W!TypeOK, Chain
    PROVE  W!FreedOnce <=> Freed(replies, added, frees)
<1>1. /\ replies \in Seq(W!Reply) /\ added \in Nat
      /\ \A i \in 1 .. Len(replies) :
            replies[i].id = added - Len(replies) + i
  BY DEF W!TypeOK, Chain, W!ReplyConstants
<1>2. Freed(replies, added, frees) <=> Unlisted(replies, added, frees)
  BY <1>1, FreedIs
<1> QED
  BY <1>2 DEF W!FreedOnce, W!Pending, Unlisted

\* FreedOnce by position in the list, in the next state.
LEMMA FreedNext ==
    ASSUME W!ReplyConstants, W!TypeOK', Chain'
    PROVE  W!FreedOnce' <=> Freed(replies', added', frees')
<1>1. /\ replies' \in Seq(W!Reply) /\ added' \in Nat
      /\ \A i \in 1 .. Len(replies') :
            replies'[i].id = added' - Len(replies') + i
  BY DEF W!TypeOK, Chain, W!ReplyConstants
<1>2. Freed(replies', added', frees') <=> Unlisted(replies', added', frees')
  BY <1>1, FreedIs
<1> QED
  BY <1>2 DEF W!FreedOnce, W!Pending, Unlisted

\* A new connection satisfies the invariant.
LEMMA InitWInv == ASSUME W!ReplyConstants, W!Init PROVE WInv
<1>1. replies \in Seq(W!Reply) /\ Len(replies) = 0
  BY EmptySeq DEF W!Init
<1>2. W!TypeOK
  BY <1>1 DEF W!Init, W!TypeOK, W!ReplyConstants, W!Events
<1>3. Chain
  BY <1>1 DEF W!Init, Chain
<1>4. Freed(replies, added, frees)
  BY <1>1 DEF W!Init, Freed, W!ReplyConstants
<1>5. Life /\ W!StreamIntact
  BY DEF W!Init, Life, W!StreamIntact
<1> QED
  BY <1>2, <1>3, <1>4, <1>5, FreedNow DEF WInv

\* add_reply puts the reply behind the others.
LEMMA StepAddReply ==
    ASSUME W!ReplyConstants, WInv,
           NEW size \in {HeadLen + body : body \in BodyLens}, W!AddReply(size)
    PROVE  WInv'
<1> DEFINE r == [id |-> added + 1, at |-> echoed, size |-> size]
<1>1. r \in W!Reply /\ r.id = added + 1 /\ r.at = echoed /\ r.size = size
  BY DEF WInv, W!TypeOK, W!Reply, W!ReplyConstants
<1>2. /\ replies \in Seq(W!Reply) /\ replies' = Append(replies, r)
      /\ added \in Nat /\ added' = added + 1 /\ added' \in 0 .. MaxMsgs
      /\ echoed \in Nat /\ echoed' = echoed + size /\ size \in Nat /\ echoed' \in Nat
      /\ listSize = Len(replies) /\ listSize' = listSize + 1
      /\ (link = "open") /\ pc = "loop"
      /\ events' = events \cup {"WRITE"}
      /\ UNCHANGED <<pc, (link = "open"), written, room, wire, frees>>
  BY DEF WInv, W!TypeOK, Chain, W!AddReply, W!StartIoEvent, W!ReplyConstants
<1> HIDE DEF r
<1>3. /\ Len(replies) \in Nat
      /\ replies = <<>> <=> Len(replies) = 0
      /\ Head(replies) = replies[1]
      /\ \A i \in 1 .. Len(replies) :
            replies[i].id \in Nat /\ replies[i].at \in Nat /\ replies[i].size \in Nat
  BY <1>2, ListFacts, Zenon
<1>4. /\ replies' \in Seq(W!Reply)
      /\ Len(replies') = Len(replies) + 1
      /\ \A i \in 1 .. Len(replies) : replies'[i] = replies[i]
      /\ replies'[Len(replies) + 1] = r
      /\ replies' # <<>>
  BY <1>1, <1>2, AppendProperties
<1>5. Head(replies') = replies'[1]
  BY <1>4, ListFacts
<1>6. W!TypeOK'
  <2>1. listSize' \in Nat
    BY <1>2, <1>3
  <2> QED
    BY <1>2, <1>4, <2>1 DEF WInv, W!TypeOK, W!Events
<1>7. Chain'
  <2>1. Len(replies') <= added'
    BY <1>2, <1>3, <1>4 DEF WInv, Chain
  <2>2. ASSUME NEW i \in 1 .. Len(replies')
        PROVE  /\ replies'[i].id = added' - Len(replies') + i
               /\ replies'[i].at + replies'[i].size
                     = IF i = Len(replies') THEN echoed' ELSE replies'[i + 1].at
    <3>1. CASE i = Len(replies) + 1
      BY <3>1, <1>1, <1>2, <1>3, <1>4
    <3>2. CASE i \in 1 .. Len(replies)
      <4>1. replies[i].id = added - Len(replies) + i
        BY <3>2 DEF WInv, Chain
      <4>2. replies[i].at + replies[i].size
               = IF i = Len(replies) THEN echoed ELSE replies[i + 1].at
        BY <3>2 DEF WInv, Chain
      <4>3. i # Len(replies') /\ replies'[i] = replies[i]
        BY <3>2, <1>3, <1>4
      <4>4. CASE i = Len(replies)
        BY <4>1, <4>2, <4>3, <4>4, <1>1, <1>2, <1>3, <1>4
      <4>5. CASE i # Len(replies)
        <5>1. i + 1 \in 1 .. Len(replies)
          BY <3>2, <4>5, <1>3
        <5> QED
          BY <4>1, <4>2, <4>3, <4>5, <5>1, <1>2, <1>3, <1>4
      <4> QED
        BY <4>4, <4>5
    <3> QED
      BY <3>1, <3>2, <1>3, <1>4
  <2>3. listSize' = Len(replies')
    BY <1>2, <1>3, <1>4
  <2> QED
    BY <2>1, <2>2, <2>3 DEF Chain
<1>8. Life'
  BY <1>2 DEF Life
<1>9. W!StreamIntact'
  <2>1. CASE replies = <<>>
    BY <2>1, <1>1, <1>2, <1>3, <1>4, <1>5 DEF WInv, W!StreamIntact, W!TypeOK
  <2>2. CASE replies # <<>>
    <3>1. replies'[1] = replies[1]
      BY <2>2, <1>3, <1>4
    <3> QED
      BY <2>2, <3>1, <1>2, <1>3, <1>4, <1>5 DEF WInv, W!StreamIntact
  <2> QED
    BY <2>1, <2>2
<1>10. W!FreedOnce'
  <2>1. Freed(replies, added, frees)
    BY FreedNow DEF WInv
  <2>2. added' - Len(replies') = added - Len(replies)
    BY <1>2, <1>3, <1>4
  <2>3. Freed(replies', added', frees')
    BY <1>2, <2>1, <2>2 DEF Freed
  <2> QED
    BY <1>6, <1>7, <2>3, FreedNext
<1> QED
  BY <1>6, <1>7, <1>8, <1>9, <1>10 DEF WInv

\* Counting one more free keeps the counters natural numbers.
LEMMA CountUp ==
    ASSUME NEW S, NEW f \in [S -> Nat], NEW x
    PROVE  [f EXCEPT ![x] = @ + 1] \in [S -> Nat]
<1> DEFINE g == [f EXCEPT ![x] = @ + 1]
<1>1. ASSUME NEW y \in S PROVE g[y] \in Nat
  <2>1. f[y] \in Nat /\ f[y] + 1 \in Nat
    OBVIOUS
  <2>2. g[y] = f[y] \/ g[y] = f[y] + 1
    OBVIOUS
  <2> QED
    BY <2>1, <2>2
<1> QED
  BY <1>1, Zenon

\* Writing the rest of a reply: s is its size, w what was written of it, e
\* where the stream stands and m the room.
LEMMA RestWritten ==
    ASSUME NEW p \in Nat, NEW s \in Nat, NEW w \in Nat, NEW e \in Nat, p + w = e,
           NEW B \in Nat, NEW m \in 0 .. B, s - w > 0, s - w <= m
    PROVE  /\ e + (s - w) = p + s /\ e + (s - w) \in Nat
           /\ m - (s - w) \in 0 .. B
OBVIOUS

\* The first reply leaves the list when its last byte is written.
LEMMA StepWriteFinish ==
    ASSUME W!ReplyConstants, WInv, W!WriteFinish
    PROVE  WInv'
<1>1. /\ replies \in Seq(W!Reply) /\ replies # <<>> /\ replies' = Tail(replies)
      /\ added \in Nat /\ echoed \in Nat /\ wire \in Nat /\ written \in Nat
      /\ room \in 0 .. SendBuffer /\ SendBuffer \in Nat
      /\ written' = 0
      /\ pc = "write" /\ (link = "open")
      /\ UNCHANGED <<pc, (link = "open"), events, echoed, added>>
  BY DEF WInv, W!TypeOK, Life, W!WriteFinish, W!ReplyConstants
<1>2. /\ Len(replies) \in Nat \ {0}
      /\ Head(replies) = replies[1]
      /\ \A i \in 1 .. Len(replies) :
            replies[i].id \in Nat /\ replies[i].at \in Nat /\ replies[i].size \in Nat
  BY <1>1, ListFacts
<1>3. /\ replies' \in Seq(W!Reply)
      /\ Len(replies') = Len(replies) - 1
      /\ \A i \in 1 .. Len(replies') : replies'[i] = replies[i + 1]
  BY <1>1, HeadTailProperties
<1>4. /\ Head(replies') = replies'[1]
      /\ replies' = <<>> <=> Len(replies') = 0
  BY <1>3, ListFacts
<1>5. /\ Len(replies) <= added
      /\ \A i \in 1 .. Len(replies) : replies[i].id = added - Len(replies) + i
      /\ \A i \in 1 .. Len(replies) :
            replies[i].at + replies[i].size
                = IF i = Len(replies) THEN echoed ELSE replies[i + 1].at
      /\ listSize = Len(replies) /\ listSize' = listSize - 1
  BY <1>1 DEF WInv, Chain, W!WriteFinish
<1>6. /\ 1 \in 1 .. Len(replies)
      /\ replies[1].id \in Nat /\ replies[1].at \in Nat /\ replies[1].size \in Nat
      /\ replies[1].id = added - Len(replies) + 1
  BY <1>2, <1>5
<1>a. /\ wire' = wire + (replies[1].size - written)
      /\ room' = room - (replies[1].size - written)
      /\ replies[1].size - written > 0 /\ replies[1].size - written <= room
  BY <1>2 DEF W!WriteFinish, W!Wanted
<1>7. replies[1].at + written = wire
  BY <1>1, <1>2 DEF WInv, W!StreamIntact
<1>b. /\ wire' = replies[1].at + replies[1].size
      /\ wire' \in Nat /\ room' \in 0 .. SendBuffer
  <2> DEFINE s == replies[1].size
             p == replies[1].at
  <2>1. /\ p \in Nat /\ s \in Nat /\ written \in Nat /\ wire \in Nat
        /\ p + written = wire
        /\ SendBuffer \in Nat /\ room \in 0 .. SendBuffer
        /\ s - written > 0 /\ s - written <= room
        /\ wire' = wire + (s - written) /\ room' = room - (s - written)
    BY <1>1, <1>6, <1>7, <1>a
  <2> HIDE DEF s, p
  <2>2. wire' = p + s /\ wire' \in Nat /\ room' \in 0 .. SendBuffer
    BY <2>1, RestWritten
  <2> QED
    BY <2>2 DEF s, p
<1>8. W!TypeOK'
  <2>1. wire' \in Nat /\ room' \in 0 .. SendBuffer
    BY <1>b
  <2>2. listSize' \in Nat
    BY <1>2, <1>5
  <2>3. frees' \in [1 .. MaxMsgs -> Nat]
    <3>1. frees \in [1 .. MaxMsgs -> Nat]
      BY DEF WInv, W!TypeOK
    <3>2. frees' = [frees EXCEPT ![Head(replies).id] = @ + 1]
      BY DEF W!WriteFinish
    <3> QED
      BY <3>1, <3>2, CountUp, Zenon
  <2> QED
    BY <1>1, <1>3, <2>1, <2>2, <2>3 DEF WInv, W!TypeOK
<1>9. Chain'
  <2>1. Len(replies') <= added'
    <3>1. Len(replies) - 1 <= added
      BY <1>1, <1>2, <1>5
    <3> QED
      BY <1>1, <1>3, <3>1
  <2>2. ASSUME NEW i \in 1 .. Len(replies')
        PROVE  /\ replies'[i].id = added' - Len(replies') + i
               /\ replies'[i].at + replies'[i].size
                     = IF i = Len(replies') THEN echoed' ELSE replies'[i + 1].at
    <3>1. i + 1 \in 1 .. Len(replies) /\ replies'[i] = replies[i + 1] /\ i \in Nat
      BY <1>2, <1>3
    <3>2. replies[i + 1].id = added - Len(replies) + (i + 1)
      BY <3>1, <1>5
    <3>3. replies[i + 1].at + replies[i + 1].size
             = IF i + 1 = Len(replies) THEN echoed ELSE replies[i + 2].at
      <4>1. \A j \in 1 .. Len(replies) : j = i + 1 => j + 1 = i + 2
        BY <3>1
      <4> QED
        BY <3>1, <4>1, <1>5
    <3>4. i + 1 = Len(replies) <=> i = Len(replies')
      BY <3>1, <1>2, <1>3
    <3>5. i # Len(replies') => replies'[i + 1] = replies[i + 2]
      <4>1. i # Len(replies') => i + 1 \in 1 .. Len(replies') /\ (i + 1) + 1 = i + 2
        BY <3>1, <1>2, <1>3
      <4> QED
        BY <4>1, <1>3
    <3> QED
      <4>1. added - Len(replies) + (i + 1) = added - (Len(replies) - 1) + i
        BY <3>1, <1>1, <1>2
      <4>2. added' = added /\ echoed' = echoed
        BY <1>1
      <4> QED
        BY <3>1, <3>2, <3>3, <3>4, <3>5, <4>1, <4>2, <1>3
  <2>3. listSize' = Len(replies')
    BY <1>3, <1>5
  <2> QED
    BY <2>1, <2>2, <2>3 DEF Chain
<1>10. Life'
  BY <1>1 DEF Life
<1>11. W!StreamIntact'
  <2>1. wire' = replies[1].at + replies[1].size
    BY <1>b
  <2>2. CASE Len(replies) = 1
    BY <2>1, <2>2, <1>1, <1>3, <1>4, <1>5, <1>6 DEF W!StreamIntact
  <2>3. CASE Len(replies) # 1
    <3>1. 1 \in 1 .. Len(replies') /\ 2 \in 1 .. Len(replies)
      BY <2>3, <1>2, <1>3
    <3>2. replies'[1] = replies[2] /\ wire' = replies[2].at
      <4>1. replies'[1] = replies[2]
        <5>1. replies'[1] = replies[1 + 1]
          BY <3>1, <1>3, Zenon
        <5> QED BY <5>1
      <4>2. wire' = replies[2].at
        BY <2>1, <2>3, <3>1, <1>5, <1>6
      <4> QED BY <4>1, <4>2
    <3> QED
      <4>1. replies' # <<>> /\ Head(replies') = replies[2] /\ replies[2].at \in Nat
        BY <3>1, <3>2, <1>2, <1>4
      <4>2. Head(replies').at + written' = wire'
        BY <3>2, <4>1, <1>1
      <4> QED
        BY <4>1, <4>2 DEF W!StreamIntact
  <2> QED
    BY <2>2, <2>3
<1>12. W!FreedOnce'
  <2>1. Freed(replies, added, frees)
    BY FreedNow DEF WInv
  <2>2. Head(replies).id = added - Len(replies) + 1
    BY <1>2, <1>6
  <2>3. ASSUME NEW k \in 1 .. MaxMsgs
        PROVE  frees'[k] = IF k <= added' - Len(replies') THEN 1 ELSE 0
    <3>1. frees[k] = IF k <= added - Len(replies) THEN 1 ELSE 0
      BY <2>1 DEF Freed
    <3>2. frees'[k] = IF k = added - Len(replies) + 1 THEN frees[k] + 1 ELSE frees[k]
      <4>1. frees \in [1 .. MaxMsgs -> Nat]
        BY DEF WInv, W!TypeOK
      <4>2. frees' = [frees EXCEPT ![added - Len(replies) + 1] = @ + 1]
        BY <2>2, Zenon DEF W!WriteFinish
      <4> QED
        BY <4>1, <4>2
    <3>3. added' - Len(replies') = added - Len(replies) + 1
      BY <1>1, <1>2, <1>3
    <3>4. k \in Nat
      BY DEF W!ReplyConstants
    <3> QED
      <4>1. added - Len(replies) \in Int
        BY <1>1, <1>2
      <4> QED
        BY <3>1, <3>2, <3>3, <3>4, <4>1
  <2> QED
    BY <1>8, <1>9, <2>3, FreedNext DEF Freed
<1> QED
  BY <1>8, <1>9, <1>10, <1>11, <1>12 DEF WInv

\* A partial write moves _bytes_written along with the stream.
LEMMA StepWritePartial ==
    ASSUME W!ReplyConstants, WInv, NEW w \in 1 .. SendBuffer, W!WritePartial(w)
    PROVE  WInv'
<1>1. /\ replies \in Seq(W!Reply) /\ replies # <<>>
      /\ wire \in Nat /\ written \in Nat /\ w \in Nat
      /\ room \in 0 .. SendBuffer /\ SendBuffer \in Nat /\ w <= room
      /\ wire' = wire + w /\ room' = room - w /\ written' = written + w
      /\ pc = "write" /\ (link = "open")
      /\ UNCHANGED <<pc, (link = "open"), events, replies, listSize, echoed, added, frees>>
  BY DEF WInv, W!TypeOK, Life, W!WritePartial, W!ReplyConstants
<1>2. W!TypeOK'
  <2>1. wire' \in Nat /\ room' \in 0 .. SendBuffer /\ written' \in Nat
    BY <1>1
  <2> QED
    BY <1>1, <2>1 DEF WInv, W!TypeOK
<1>3. W!StreamIntact'
  <2>1. Head(replies).at + written = wire
    BY <1>1 DEF WInv, W!StreamIntact
  <2>2. Head(replies).at \in Nat
    <3>1. Len(replies) \in Nat \ {0} /\ Head(replies) = replies[1]
      BY <1>1, ListFacts
    <3> QED
      BY <1>1, <3>1, ListFacts
  <2> QED
    BY <1>1, <2>1, <2>2 DEF W!StreamIntact
<1>4. Chain' /\ Life' /\ W!FreedOnce'
  BY <1>1 DEF WInv, Chain, Life, W!FreedOnce, W!Pending
<1> QED
  BY <1>2, <1>3, <1>4 DEF WInv

\* close_conn frees the replies that are left.
LEMMA StepWriterClose ==
    ASSUME W!ReplyConstants, WInv, W!CloseConn
    PROVE  WInv'
<1>1. /\ (link' = "open") = FALSE /\ pc' = "loop" /\ events' = {} /\ replies' = <<>>
      /\ frees' = [k \in 1 .. MaxMsgs |->
                     IF k \in W!Pending THEN frees[k] + 1 ELSE frees[k]]
      /\ UNCHANGED <<listSize, written, room, wire, echoed, added>>
      /\ added \in Nat
  BY DEF W!CloseConn, WInv, W!TypeOK, W!ReplyConstants
<1>2. replies' \in Seq(W!Reply) /\ Len(replies') = 0
  BY <1>1, EmptySeq
<1>3. W!TypeOK'
  <2>1. frees' \in [1 .. MaxMsgs -> Nat]
    BY <1>1 DEF WInv, W!TypeOK
  <2> QED
    BY <1>1, <1>2, <2>1 DEF WInv, W!TypeOK
<1>4. Chain' /\ Life' /\ W!StreamIntact'
  BY <1>1, <1>2 DEF Chain, Life, W!StreamIntact
<1>5. W!FreedOnce'
  <2>1. ASSUME NEW k \in 1 .. MaxMsgs
        PROVE  frees'[k] = IF k <= added' - Len(replies') THEN 1 ELSE 0
    <3>1. frees[k] = IF k <= added /\ k \notin W!Pending THEN 1 ELSE 0
      BY DEF WInv, W!FreedOnce
    <3>2. k \in W!Pending => k <= added
      <4>1. /\ replies \in Seq(W!Reply) /\ k \in Nat
            /\ \A i \in 1 .. Len(replies) : replies[i].id = added - Len(replies) + i
        BY DEF WInv, W!TypeOK, Chain, W!ReplyConstants
      <4> QED
        BY <1>1, <4>1, LastNumbers DEF W!Pending
    <3>3. frees'[k] = IF k \in W!Pending THEN frees[k] + 1 ELSE frees[k]
      BY <1>1
    <3> QED
      BY <3>1, <3>2, <3>3, <1>1, <1>2
  <2> QED
    BY <1>3, <1>4, <2>1, FreedNext DEF Freed
<1> QED
  BY <1>3, <1>4, <1>5 DEF WInv

\* Every step preserves the invariant.
LEMMA NextWInv == ASSUME W!ReplyConstants, WInv, [W!Next]_W!vars PROVE WInv'
<1>1. CASE \E size \in {HeadLen + body : body \in BodyLens} : W!AddReply(size)
  BY <1>1, StepAddReply
<1>2. CASE W!WriteFinish
  BY <1>2, StepWriteFinish
<1>3. CASE \E w \in 1 .. SendBuffer : W!WritePartial(w)
  BY <1>3, StepWritePartial
<1>4. CASE W!WriteError \/ W!OtherClose
  BY <1>4, StepWriterClose DEF W!WriteError, W!OtherClose
<1>5. CASE W!WriteIo \/ W!WriteZero \/ W!WriteDone \/ W!PeerReads \/ UNCHANGED W!vars
  <2>1. /\ UNCHANGED <<(link = "open"), replies, listSize, written, wire, echoed, added, frees>>
        /\ pc' = pc \/ pc' = "loop" \/ (pc' = "write" /\ (link = "open"))
        /\ room' = room \/ room' = SendBuffer
        /\ events' \subseteq events
    BY <1>5 DEF W!WriteIo, W!WriteZero, W!WriteDone, W!PeerReads, W!vars, W!StopIoEvent
  <2>2. W!TypeOK'
    BY <2>1 DEF WInv, W!TypeOK, W!ReplyConstants
  <2>3. Chain' /\ Life' /\ W!StreamIntact' /\ W!FreedOnce'
    BY <2>1 DEF WInv, Chain, Life, W!StreamIntact, W!FreedOnce, W!Pending
  <2> QED
    BY <2>2, <2>3 DEF WInv
<1> QED
  BY <1>1, <1>2, <1>3, <1>4, <1>5 DEF W!Next, W!WriterStep

\* The inductive invariant holds in every reachable state.
THEOREM WriterInvariance == ASSUME W!ReplyConstants PROVE W!Spec => []WInv
<1>1. W!Init => WInv
  BY InitWInv
<1>2. WInv /\ [W!Next]_W!vars => WInv'
  BY NextWInv
<1> QED
  BY <1>1, <1>2, PTL DEF W!Spec

------------------------------------------------------------------------------
(* The connection.                                                         *)

\* The thread writes only to a connection that is open.
Threading == pc \in {"loop", "write"} /\ (pc = "write" => link = "open")

\* What a step of the reading half does to what it shares with the other.
LEMMA ReadHalfFacts ==
    ASSUME IInv, ReadHalf
    PROVE  /\ link = "open" /\ UNCHANGED <<msgs, total>>
           /\ link' # "open" => UNCHANGED <<base, handled>>
           /\ \/ handled' = handled
              \/ \E k \in 1 .. Len(msgs) :
                    msgs[k].at = base /\ handled' = Append(handled, msgs[k])
<1>1. ASSUME NEW len, link = "open", AfterRead(len)
      PROVE  /\ UNCHANGED <<msgs, total>>
             /\ link' # "open" => UNCHANGED <<base, handled>>
             /\ \/ handled' = handled
                \/ \E k \in 1 .. Len(msgs) :
                      msgs[k].at = base /\ handled' = Append(handled, msgs[k])
  <2>1. CASE ProcessIoBuffer(len)
    BY <1>1, <2>1 DEF ProcessIoBuffer, Close, HeaderAt, client
  <2>2. CASE UNCHANGED <<client, base, processed, expected, state, link, handled>>
    BY <2>2 DEF client
  <2> QED
    BY <1>1, <2>1, <2>2 DEF AfterRead
<1>2. CASE \E r \in 1 .. Largest : ReadSome(r)
  BY <1>1, <1>2 DEF ReadSome
<1>3. CASE ReadNothing
  BY <1>1, <1>3 DEF ReadNothing, Close, client
<1>4. CASE ReadZero \/ ReadError \/ Timeout \/ WorkerStop
  BY <1>4 DEF ReadZero, ReadError, Timeout, WorkerStop, Close, client
<1> QED
  BY <1>2, <1>3, <1>4 DEF ReadHalf

\* The size of an answer is one of those the writing half is made for.
LEMMA AnswerSize ==
    ASSUME TypeOK', handled' # <<>>
    PROVE  EchoSize(handled'[Len(handled')]) \in {HeadLen + body : body \in BodyLens}
<1>1. handled' \in Seq(Message) /\ Len(handled') \in 1 .. Len(handled')
  BY EmptySeq, LenProperties DEF TypeOK
<1>2. handled'[Len(handled')].body \in BodyLens
  BY <1>1, ElementOfSeq, FieldTypes
<1> QED
  BY <1>2, Zenon DEF EchoSize

\* A step of the connection is a step of each half, or none.
LEMMA StepHalves ==
    ASSUME IInv, Threading, [ConnNext]_connVars
    PROVE  [Next]_vars /\ [W!Next]_W!vars /\ Threading'
<1>1. CASE Client
  <2>1. UNCHANGED link
    BY <1>1, Zenon DEF Client, ClientSend, ClientClose, conn
  <2> QED
    BY <1>1, <2>1 DEF Client, Next, writer, W!vars, Threading
<1>2. CASE Reads
  <2>1. ReadHalf /\ ReadEffect /\ pc = "loop"
    BY <1>2 DEF Reads
  <2>2. Next
    BY <2>1 DEF ReadHalf, Next
  <2>3. link = "open"
    BY <2>1, ReadHalfFacts
  <2>4. CASE link' # "open"
    <3>1. W!CloseConn
      BY <2>1, <2>4 DEF ReadEffect
    <3>2. W!OtherClose
      BY <2>1, <2>3, <3>1 DEF W!OtherClose
    <3> QED
      BY <2>2, <3>1, <3>2 DEF W!Next, W!CloseConn, Threading
  <2>5. CASE link' = "open" /\ handled' = handled
    <3>1. UNCHANGED writer
      BY <2>1, <2>5 DEF ReadEffect
    <3> QED
      BY <2>1, <2>2, <2>3, <2>5, <3>1 DEF writer, W!vars, Threading
  <2>6. CASE link' = "open" /\ handled' # handled
    <3>1. W!AddReply(EchoSize(handled'[Len(handled')]))
      BY <2>1, <2>6 DEF ReadEffect
    <3>2. handled' # <<>>
      <4>1. PICK k \in 1 .. Len(msgs) : handled' = Append(handled, msgs[k])
        BY <2>1, <2>6, ReadHalfFacts
      <4>2. msgs[k] \in Message /\ handled \in Seq(Message)
        BY ElementOfSeq DEF IInv, TypeOK
      <4> QED
        BY <4>1, <4>2, AppendProperties
    <3>3. TypeOK'
      BY <2>2, NextIInv DEF IInv
    <3>4. EchoSize(handled'[Len(handled')]) \in {HeadLen + body : body \in BodyLens}
      BY <3>2, <3>3, AnswerSize
    <3>5. W!Next
      BY <3>1, <3>4 DEF W!Next
    <3>6. pc' = pc
      BY <3>1 DEF W!AddReply
    <3> QED
      BY <2>1, <2>2, <3>5, <3>6 DEF Threading
  <2> QED
    BY <2>4, <2>5, <2>6
<1>3. CASE Writes
  <2>1. UNCHANGED vars /\ W!WriterStep /\ UNCHANGED link
    BY <1>3 DEF Writes, vars, conn
  <2>2. pc' \in {"loop", "write"} /\ (pc' = "write" => link = "open")
    BY <2>1 DEF W!WriterStep, W!WriteIo, W!WriteFinish, W!WritePartial,
       W!WriteZero, W!WriteDone, Threading
  <2> QED
    BY <2>1, <2>2 DEF W!Next, Threading
<1>4. CASE WriteFails
  <2>1. Close("error") /\ W!WriteError /\ pc = "write" /\ pc' = "loop"
    BY <1>4 DEF WriteFails, W!WriteError, W!CloseConn
  <2>2. ReadError
    BY <2>1 DEF ReadError, Threading
  <2> QED
    BY <2>1, <2>2 DEF Next, W!Next, Threading
<1>5. CASE PeerReads
  <2>1. UNCHANGED vars /\ W!PeerReads /\ UNCHANGED <<link, pc>>
    BY <1>5 DEF PeerReads, W!PeerReads, vars, conn
  <2> QED
    BY <2>1 DEF W!Next, Threading
<1>6. CASE UNCHANGED connVars
  <2>1. UNCHANGED vars /\ UNCHANGED writer /\ UNCHANGED link
    BY <1>6 DEF connVars, vars, conn
  <2> QED
    BY <2>1 DEF writer, W!vars, Threading
<1> QED
  BY <1>1, <1>2, <1>3, <1>4, <1>5, <1>6 DEF ConnNext

\* The reading half's invariant, and the thread's, hold of the connection.
THEOREM ConnInvariance == ConnSpec => [](IInv /\ Threading)
<1>1. ConnInit => IInv /\ Threading
  BY InitIInv DEF ConnInit, W!Init, Threading
<1>2. IInv /\ Threading /\ [ConnNext]_connVars => (IInv /\ Threading)'
  BY StepHalves, NextIInv
<1> QED
  BY <1>1, <1>2, PTL DEF ConnSpec

(* Composing the halves of a connection adds nothing to either: what the   *)
(* event loop does to the receive half is a behaviour of tcp_read_io       *)
(* alone, and what it does to the send half one of tcp_write_io alone.     *)
THEOREM Refinement_Halves == ConnSpec => HalvesImplemented
<1>1. ConnInit => Init /\ W!Init
  BY DEF ConnInit
<1>2. IInv /\ Threading /\ [ConnNext]_connVars => [Next]_vars /\ [W!Next]_W!vars
  BY StepHalves
<1> QED
  BY <1>1, <1>2, ConnInvariance, PTL DEF ConnSpec, HalvesImplemented, Spec, W!Spec

\* What is proved of the writing half therefore holds of the connection.
THEOREM WriterInConn == ConnSpec => []WInv
<1>1. W!Spec => []WInv
  BY ConnectionConstants, WriterInvariance
<1> QED
  BY <1>1, Refinement_Halves, PTL DEF HalvesImplemented

\* The answers are those of the requests handled, each at its request's place.
Echo ==
    /\ added = Len(handled)
    /\ echoed = base
    /\ \A i \in 1 .. Len(replies) :
          LET msg == handled[replies[i].id]
          IN  replies[i].at = msg.at /\ replies[i].size = EchoSize(msg)

\* A step that handles no request leaves the answers, or takes some away.
LEMMA StepNoRequest ==
    ASSUME Echo, UNCHANGED <<added, echoed, handled, base>>,
           \A i \in 1 .. Len(replies') :
              \E j \in 1 .. Len(replies) : replies'[i] = replies[j]
    PROVE  Echo'
<1>1. ASSUME NEW i \in 1 .. Len(replies')
      PROVE  /\ replies'[i].at = handled'[replies'[i].id].at
             /\ replies'[i].size = EchoSize(handled'[replies'[i].id])
  <2>1. PICK j \in 1 .. Len(replies) : replies'[i] = replies[j]
    OBVIOUS
  <2>2. /\ replies[j].at = handled[replies[j].id].at
        /\ replies[j].size = EchoSize(handled[replies[j].id])
    BY DEF Echo
  <2> QED
    BY <2>1, <2>2
<1>2. added' = Len(handled') /\ echoed' = base'
  BY DEF Echo
<1> QED
  BY <1>1, <1>2 DEF Echo, EchoSize

\* The next boundary in the client's stream lies behind the message handled.
LEMMA StepRequest ==
    ASSUME IInv, IInv', WInv, Echo, UNCHANGED msgs,
           NEW k \in 1 .. Len(msgs), msgs[k].at = base,
           handled' = Append(handled, msgs[k]),
           W!AddReply(EchoSize(handled'[Len(handled')]))
    PROVE  Echo'
<1>1. /\ msgs \in Seq(Message) /\ handled \in Seq(Message)
      /\ msgs[k] \in Message /\ base \in Nat
  BY ElementOfSeq DEF IInv, TypeOK
<1>2. /\ Len(handled) \in Nat /\ Len(handled') = Len(handled) + 1
      /\ \A j \in 1 .. Len(handled) : handled'[j] = handled[j]
      /\ handled'[Len(handled) + 1] = msgs[k]
  BY <1>1, AppendProperties, LenProperties
<1>3. msgs[k].body \in Nat /\ EchoSize(msgs[k]) = HeadLen + msgs[k].body
  BY <1>1, MessageFields DEF EchoSize
<1>4. k = Len(handled) + 1
  <2>1. Len(handled) + 1 <= Len(msgs)
    BY <1>2 DEF IInv, FrameSync
  <2>2. handled'[Len(handled) + 1] = msgs[Len(handled) + 1]
    BY <1>2 DEF IInv, FrameSync
  <2>3. Len(handled) + 1 \in 1 .. Len(msgs) /\ msgs[Len(handled) + 1].at = base
    BY <1>2, <2>1, <2>2
  <2> QED
    BY <2>3 DEF IInv, Layout
<1>5. base' = base + EchoSize(msgs[k])
  <2>1. base' = Start(k + 1)'
    BY <1>2, <1>4 DEF IInv, FrameSync, Current
  <2>2. Start(k + 1)' = msgs[k].at + HeadLen + msgs[k].body
    BY DEF IInv, Layout
  <2> QED
    BY <1>1, <1>3, <2>1, <2>2
<1> DEFINE r == [id |-> added + 1, at |-> echoed, size |-> EchoSize(msgs[k])]
<1>6. /\ added' = added + 1
      /\ echoed' = echoed + EchoSize(msgs[k])
      /\ replies' = Append(replies, r)
  BY <1>2 DEF W!AddReply
<1>7. /\ replies \in Seq(W!Reply) /\ Len(replies) \in Nat
      /\ added \in Nat /\ echoed \in Nat
  BY LenProperties, ConnectionConstants DEF WInv, W!TypeOK
<1>8. r \in W!Reply
  <2>1. EchoSize(msgs[k]) \in {HeadLen + body : body \in BodyLens}
    BY <1>1, FieldTypes, Zenon DEF EchoSize
  <2> QED
    BY <1>7, <2>1 DEF W!Reply
<1>9. /\ Len(replies') = Len(replies) + 1
      /\ \A i \in 1 .. Len(replies) : replies'[i] = replies[i]
      /\ replies'[Len(replies) + 1] = r
      /\ r.id = added + 1 /\ r.at = echoed /\ r.size = EchoSize(msgs[k])
  <2>1. r.id = added + 1 /\ r.at = echoed /\ r.size = EchoSize(msgs[k])
    OBVIOUS
  <2> HIDE DEF r
  <2> QED
    BY <1>6, <1>7, <1>8, <2>1, AppendProperties
<1> HIDE DEF r
<1>10. ASSUME NEW i \in 1 .. Len(replies')
       PROVE  /\ replies'[i].at = handled'[replies'[i].id].at
              /\ replies'[i].size = EchoSize(handled'[replies'[i].id])
  <2>1. CASE i = Len(replies) + 1
    BY <2>1, <1>2, <1>9 DEF Echo
  <2>2. CASE i \in 1 .. Len(replies)
    <3>1. /\ replies'[i] = replies[i]
          /\ replies[i].at = handled[replies[i].id].at
          /\ replies[i].size = EchoSize(handled[replies[i].id])
      BY <2>2, <1>9 DEF Echo
    <3>2. replies[i].id \in 1 .. Len(handled)
      <4>1. replies[i].id = added - Len(replies) + i /\ Len(replies) <= added
        BY <2>2 DEF WInv, Chain
      <4> QED
        BY <2>2, <4>1, <1>7 DEF Echo
    <3> QED
      BY <3>1, <3>2, <1>2
  <2>3. i = Len(replies) + 1 \/ i \in 1 .. Len(replies)
    BY <1>7, <1>9
  <2> QED
    BY <2>1, <2>2, <2>3, Zenon
<1>11. added' = Len(handled') /\ echoed' = base'
  BY <1>2, <1>5, <1>6 DEF Echo
<1> QED
  BY <1>10, <1>11, Zenon DEF Echo, EchoSize

\* Every step of the connection keeps answers and requests in step.
LEMMA StepEcho ==
    ASSUME IInv, IInv', Threading, WInv, Echo, [ConnNext]_connVars
    PROVE  Echo'
<1>1. replies \in Seq(W!Reply) /\ Len(replies) \in Nat
  BY LenProperties DEF WInv, W!TypeOK
<1>2. \A i \in 1 .. Len(replies) : \E j \in 1 .. Len(replies) : replies[i] = replies[j]
  OBVIOUS
<1>3. CASE Reads
  <2>1. ReadHalf /\ ReadEffect
    BY <1>3 DEF Reads
  <2>2. /\ UNCHANGED <<msgs, total>>
        /\ link' # "open" => UNCHANGED <<base, handled>>
        /\ \/ handled' = handled
           \/ \E k \in 1 .. Len(msgs) :
                 msgs[k].at = base /\ handled' = Append(handled, msgs[k])
    BY <2>1, ReadHalfFacts
  <2>3. CASE link' # "open"
    <3>1. replies' = <<>> /\ UNCHANGED <<added, echoed>>
      BY <2>1, <2>3 DEF ReadEffect, W!CloseConn
    <3>2. Len(replies') = 0
      BY <3>1
    <3> QED
      BY <2>2, <2>3, <3>1, <3>2, StepNoRequest
  <2>4. CASE link' = "open" /\ handled' = handled
    <3>1. UNCHANGED <<replies, added, echoed>>
      BY <2>1, <2>4 DEF ReadEffect, writer
    <3>2. base' = base
      BY <2>2, <2>4 DEF IInv, FrameSync, Start, Current
    <3> QED
      BY <1>2, <2>4, <3>1, <3>2, StepNoRequest
  <2>5. CASE link' = "open" /\ handled' # handled
    <3>1. W!AddReply(EchoSize(handled'[Len(handled')]))
      BY <2>1, <2>5 DEF ReadEffect
    <3> QED
      BY <2>2, <2>5, <3>1, StepRequest
  <2> QED
    BY <2>3, <2>4, <2>5
<1>4. CASE Client \/ PeerReads \/ UNCHANGED connVars
  <2>1. UNCHANGED <<added, echoed, handled, base, replies>>
    BY <1>4, Zenon DEF Client, ClientSend, ClientClose, PeerReads, W!PeerReads, connVars,
       vars, conn, writer
  <2> QED
    BY <1>2, <2>1, StepNoRequest
<1>5. CASE Writes
  <2>1. UNCHANGED <<added, echoed, handled, base>>
    BY <1>5 DEF Writes, vars, conn, W!WriterStep, W!WriteIo, W!WriteFinish,
       W!WritePartial, W!WriteZero, W!WriteDone
  <2>2. CASE W!WriteFinish
    <3>1. replies # <<>> /\ replies' = Tail(replies)
      BY <2>2 DEF W!WriteFinish
    <3>2. /\ Len(replies') = Len(replies) - 1
          /\ \A i \in 1 .. Len(replies') : replies'[i] = replies[i + 1]
      BY <1>1, <3>1, HeadTailProperties
    <3>3. \A i \in 1 .. Len(replies') : i + 1 \in 1 .. Len(replies)
      BY <1>1, <3>2
    <3> QED
      BY <2>1, <3>2, <3>3, StepNoRequest
  <2>3. CASE ~W!WriteFinish
    <3>1. UNCHANGED replies
      BY <1>5, <2>3 DEF Writes, W!WriterStep, W!WriteIo, W!WritePartial,
         W!WriteZero, W!WriteDone
    <3> QED
      BY <1>2, <2>1, <3>1, StepNoRequest
  <2> QED
    BY <2>2, <2>3
<1>6. CASE WriteFails
  <2>1. UNCHANGED <<added, echoed, handled, base>> /\ replies' = <<>>
    BY <1>6 DEF WriteFails, Close, W!WriteError, W!CloseConn
  <2>2. Len(replies') = 0
    BY <2>1
  <2> QED
    BY <2>1, <2>2, StepNoRequest
<1> QED
  BY <1>3, <1>4, <1>5, <1>6 DEF ConnNext

(* The client gets its own bytes back: each request that process_request   *)
(* handles is answered once, in order, at the place in the stream to the   *)
(* client that it had in the stream from the client; the answers leave     *)
(* tcp_write_io without a gap and are freed exactly once.                  *)
THEOREM Safety_StreamIntact == ConnSpec => []StreamIntact
<1>1. ConnInit => Echo
  <2> SUFFICES ASSUME ConnInit PROVE Echo
    OBVIOUS
  <2>1. /\ added = 0 /\ echoed = 0 /\ base = 0 /\ replies = <<>> /\ handled = <<>>
    BY DEF ConnInit, Init, W!Init
  <2>2. Len(replies) = 0 /\ Len(handled) = 0
    BY <2>1
  <2> QED
    BY <2>1, <2>2 DEF Echo
<1>2. /\ IInv /\ Threading /\ (IInv /\ Threading)' /\ WInv
      /\ Echo /\ [ConnNext]_connVars
      => Echo'
  BY StepEcho
<1>3. WInv /\ Echo => StreamIntact
  BY DEF WInv, StreamIntact, Echo
<1> QED
  BY <1>1, <1>2, <1>3, ConnInvariance, WriterInConn, PTL DEF ConnSpec
==============================================================================
