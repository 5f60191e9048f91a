-------------------------- MODULE ClientInputProofs --------------------------
(***************************************************************************)
(* Proofs about ClientInput for every alphabet, filter length, command     *)
(* size and chunk size: the counting of raw data, the filters that are     *)
(* never forgotten, and that chunks make no difference.                    *)
(***************************************************************************)
EXTENDS ClientInput, SequenceTheorems, TLAPS

(* Between two lines the buffer has no line end in it, in the middle of a    *)
(* block it is empty, and after the end nothing is looked at.                *)
Tidy ==
  /\ ~disconnecting => NoLineEnd(buffer)
  /\ disconnecting => chunk = <<>>
  /\ pending.size = 0 => pending = NoRequest
  /\ pending.size = 0 => dataBytes = 0

IInv == TypeOK /\ BlockExact /\ NeverForgotten /\ Tidy

-------------------------------------------------------------------------------
(* Cutting a sequence that was put together behind its first part.           *)

LEMMA CutLeft ==
  ASSUME NEW S, NEW s \in Seq(S), NEW t \in Seq(S), NEW k \in 0..Len(t)
  PROVE  SubSeq(s \o t, 1, Len(s) + k) = s \o SubSeq(t, 1, k)
<1>1. s \o t \in Seq(S) /\ Len(s \o t) = Len(s) + Len(t)
      /\ \A i \in 1..(Len(s) + Len(t)) : (s \o t)[i] = IF i <= Len(s) THEN s[i] ELSE t[i - Len(s)]
  BY ConcatProperties
<1>2. Len(s) \in Nat /\ Len(t) \in Nat
  OBVIOUS
<1>3. \A i \in 1..(Len(s) + k) : (s \o t)[i] \in S
  BY <1>1, <1>2, ElementOfSeq
<1>4. /\ SubSeq(s \o t, 1, Len(s) + k) \in Seq(S)
      /\ Len(SubSeq(s \o t, 1, Len(s) + k)) = Len(s) + k
      /\ \A i \in 1..(Len(s) + k) : SubSeq(s \o t, 1, Len(s) + k)[i] = (s \o t)[i]
  BY <1>2, <1>3, SubSeqProperties
<1>5. \A i \in 1..k : t[i] \in S
  BY <1>2, ElementOfSeq
<1>6. /\ SubSeq(t, 1, k) \in Seq(S) /\ Len(SubSeq(t, 1, k)) = k
      /\ \A i \in 1..k : SubSeq(t, 1, k)[i] = t[i]
  BY <1>2, <1>5, SubSeqProperties
<1>7. /\ s \o SubSeq(t, 1, k) \in Seq(S) /\ Len(s \o SubSeq(t, 1, k)) = Len(s) + k
      /\ \A i \in 1..(Len(s) + k) : (s \o SubSeq(t, 1, k))[i]
           = IF i <= Len(s) THEN s[i] ELSE SubSeq(t, 1, k)[i - Len(s)]
  BY <1>6, ConcatProperties
<1>8. \A i \in 1..(Len(s) + k) : SubSeq(s \o t, 1, Len(s) + k)[i] = (s \o SubSeq(t, 1, k))[i]
  BY <1>1, <1>2, <1>4, <1>6, <1>7
<1> QED
  BY <1>4, <1>7, <1>8, SeqEqual

LEMMA CutRight ==
  ASSUME NEW S, NEW s \in Seq(S), NEW t \in Seq(S), NEW k \in 0..Len(t)
  PROVE  SubSeq(s \o t, Len(s) + k + 1, Len(s \o t)) = SubSeq(t, k + 1, Len(t))
<1>1. s \o t \in Seq(S) /\ Len(s \o t) = Len(s) + Len(t)
      /\ \A i \in 1..(Len(s) + Len(t)) : (s \o t)[i] = IF i <= Len(s) THEN s[i] ELSE t[i - Len(s)]
  BY ConcatProperties
<1>2. Len(s) \in Nat /\ Len(t) \in Nat
  OBVIOUS
<1>3. \A i \in (Len(s) + k + 1)..(Len(s) + Len(t)) : (s \o t)[i] \in S
  BY <1>1, <1>2, ElementOfSeq
<1>4. /\ SubSeq(s \o t, Len(s) + k + 1, Len(s) + Len(t)) \in Seq(S)
      /\ Len(SubSeq(s \o t, Len(s) + k + 1, Len(s) + Len(t))) = Len(t) - k
      /\ \A i \in 1..(Len(t) - k) :
           SubSeq(s \o t, Len(s) + k + 1, Len(s) + Len(t))[i] = (s \o t)[Len(s) + k + i]
  BY <1>2, <1>3, SubSeqProperties
<1>5. \A i \in (k + 1)..Len(t) : t[i] \in S
  BY <1>2, ElementOfSeq
<1>6. /\ SubSeq(t, k + 1, Len(t)) \in Seq(S) /\ Len(SubSeq(t, k + 1, Len(t))) = Len(t) - k
      /\ \A i \in 1..(Len(t) - k) : SubSeq(t, k + 1, Len(t))[i] = t[k + i]
  BY <1>2, <1>5, SubSeqProperties
<1>7. \A i \in 1..(Len(t) - k) :
        SubSeq(s \o t, Len(s) + k + 1, Len(s) + Len(t))[i] = SubSeq(t, k + 1, Len(t))[i]
  BY <1>1, <1>2, <1>4, <1>6
<1> QED
  BY <1>1, <1>4, <1>6, <1>7, SeqEqual

-------------------------------------------------------------------------------
(* The invariant, one action at a time.                                      *)

LEMMA ChunkType == \A c \in Chunks : c \in Seq(Unit) /\ Len(c) > 0 /\ c # <<>>
BY DEF Chunks, Unit

LEMMA AfterType ==
  ASSUME NEW s \in Seq(Unit), NEW n \in 0..Len(s)
  PROVE  After(s, n) \in Seq(Unit)
<1>1. \A i \in (n + 1)..Len(s) : s[i] \in Unit
  BY ElementOfSeq
<1> QED
  BY <1>1, SubSeqProperties DEF After

LEMMA PrefixType ==
  ASSUME NEW s \in Seq(Unit), NEW n \in 0..Len(s)
  PROVE  SubSeq(s, 1, n) \in Seq(Unit) /\ Len(SubSeq(s, 1, n)) = n
<1>1. \A i \in 1..n : s[i] \in Unit
  BY ElementOfSeq
<1> QED
  BY <1>1, SubSeqProperties

LEMMA UnitFacts ==
  ASSUME CommandsAssumption
  PROVE  /\ \A n \in DOMAIN Bytes : Bytes[n] \in Nat \ {0}
         /\ \A u \in Unit : u.cmd = "INF" => u.arg \in {0} \union DOMAIN Bytes
BY DEF CommandsAssumption, Unit, NL

LEMMA InitInv == Init => IInv
<1> SUFFICES ASSUME Init PROVE IInv
  OBVIOUS
<1>1. <<>> \in Seq(Unit) /\ NoLineEnd(<<>>)
  BY DEF NoLineEnd
<1>2. NoRequest \in Requests /\ NoRequest.got = <<>> /\ NoRequest.size = 0
  BY <1>1 DEF NoRequest, Requests
<1>3. TypeOK
  BY <1>1, <1>2 DEF Init, TypeOK
<1>4. BlockExact
  BY <1>2 DEF Init, BlockExact
<1>5. NeverForgotten
  BY DEF Init, NeverForgotten
<1>6. Tidy
  BY <1>1, <1>2 DEF Init, Tidy
<1> QED
  BY <1>3, <1>4, <1>5, <1>6 DEF IInv

LEMMA OnDataInv == ASSUME IInv, NEW c \in Chunks, OnData(c) PROVE IInv'
BY ChunkType DEF IInv, OnData, TypeOK, BlockExact, NeverForgotten, Tidy, bloom, NoLineEnd

LEMMA DisconnectInv == ASSUME IInv, Disconnect PROVE IInv'
BY DEF IInv, Disconnect, TypeOK, BlockExact, NeverForgotten, Tidy, bloom, NoLineEnd

LEMMA TakePartInv == ASSUME IInv, TakePart PROVE IInv'
<1> USE DEF IInv, TakePart, TypeOK, Tidy, bloom
<1>1. buffer' \in Seq(Unit) /\ chunk' \in Seq(Unit)
  BY ConcatProperties, EmptySeq
<1>2. ~disconnecting' => NoLineEnd(buffer')
  BY ConcatProperties, LenProperties DEF NoLineEnd
<1> QED
  BY <1>1, <1>2 DEF BlockExact, NeverForgotten

LEMMA TakeDataInv == ASSUME IInv, TakeData PROVE IInv'
<1> DEFINE n == Smaller(dataBytes, Len(chunk))
           got == pending.got \o SubSeq(chunk, 1, n)
<1>1. /\ chunk \in Seq(Unit) /\ pending \in Requests /\ pending.got \in Seq(Unit) /\ dataBytes \in Nat
      /\ chunk # <<>> /\ dataBytes > 0 /\ ~disconnecting
  BY DEF IInv, TypeOK, TakeData, Requests, Tidy
<1>2. n \in 1..Len(chunk) /\ n <= dataBytes /\ dataBytes - n \in Nat
  BY <1>1, EmptySeq DEF Smaller
<1>3. After(chunk, n) \in Seq(Unit) /\ SubSeq(chunk, 1, n) \in Seq(Unit) /\ Len(SubSeq(chunk, 1, n)) = n
  BY <1>1, <1>2, AfterType, PrefixType
<1>4. got \in Seq(Unit) /\ Len(got) = Len(pending.got) + n /\ got # <<>>
  BY <1>1, <1>2, <1>3, ConcatProperties, EmptySeq
<1>5. dataBytes + Len(pending.got) = pending.size /\ buffer = <<>>
  BY <1>1 DEF IInv, BlockExact
<1>6. /\ chunk' = After(chunk, n) /\ dataBytes' = dataBytes - n
      /\ buffer' = buffer /\ disconnecting' = disconnecting /\ share' = share /\ handled' = handled
  BY DEF TakeData
<1>7. BloomData(SubSeq(chunk, 1, n))
  BY DEF TakeData
<1>8. CASE Len(got) = pending.size
  <2>1. filter' = got /\ pending' = NoRequest /\ dataBytes' = 0
    BY <1>1, <1>2, <1>4, <1>5, <1>6, <1>7, <1>8, SMTT(40) DEF BloomData
  <2>2. NoRequest \in Requests /\ NoRequest.got = <<>> /\ NoRequest.size = 0
    BY EmptySeq DEF NoRequest, Requests
  <2>3. TypeOK'
    BY <1>3, <1>4, <1>6, <2>1, <2>2, SMTT(40) DEF IInv, TypeOK
  <2>4. BlockExact' /\ NeverForgotten'
    BY <1>4, <2>1, <2>2 DEF BlockExact, NeverForgotten
  <2>5. Tidy'
    BY <1>1, <1>6, <2>1 DEF IInv, Tidy, NoLineEnd
  <2> QED
    BY <2>3, <2>4, <2>5 DEF IInv
<1>9. CASE Len(got) # pending.size
  <2>1. filter' = filter /\ pending' = [pending EXCEPT !.got = got]
    BY <1>7, <1>9 DEF BloomData
  <2>2. pending' \in Requests /\ pending'.got = got /\ pending'.size = pending.size
    BY <1>1, <1>4, <2>1 DEF Requests
  <2>3. dataBytes' + Len(got) = pending.size /\ dataBytes' > 0 /\ pending.size # 0
    BY <1>1, <1>2, <1>4, <1>5, <1>6, <1>9
  <2>4. pending' # NoRequest
    BY <2>2, <2>3 DEF NoRequest
  <2>5. TypeOK'
    BY <1>2, <1>3, <1>6, <2>1, <2>2 DEF IInv, TypeOK
  <2>6. BlockExact' /\ NeverForgotten'
    <3> HIDE DEF got
    <3>1. dataBytes' + Len(pending'.got) = pending'.size /\ buffer' = <<>> /\ dataBytes' # 0
      BY <1>5, <1>6, <2>2, <2>3
    <3> QED
      BY <2>4, <3>1 DEF BlockExact, NeverForgotten
  <2>7. Tidy'
    BY <1>1, <1>6, <2>2, <2>3 DEF IInv, Tidy, NoLineEnd
  <2> QED
    BY <2>5, <2>6, <2>7 DEF IInv
<1> QED
  BY <1>8, <1>9

(* What is known of a line when it is complete.                              *)
LEMMA LineFacts ==
  ASSUME IInv, chunk # <<>>, dataBytes = 0, NEW n \in DOMAIN chunk, LineEnd(chunk, n)
  PROVE  /\ n \in 1..Len(chunk) /\ ~disconnecting /\ pending.got = <<>>
         /\ SubSeq(chunk, 1, n - 1) \in Seq(Unit) /\ Len(SubSeq(chunk, 1, n - 1)) = n - 1
         /\ buffer \o SubSeq(chunk, 1, n - 1) \in Seq(Unit)
         /\ After(chunk, n) \in Seq(Unit)
<1>1. chunk \in Seq(Unit) /\ buffer \in Seq(Unit) /\ n \in 1..Len(chunk)
  BY DEF IInv, TypeOK
<1>2. SubSeq(chunk, 1, n - 1) \in Seq(Unit) /\ Len(SubSeq(chunk, 1, n - 1)) = n - 1
  BY <1>1, PrefixType
<1>3. buffer \o SubSeq(chunk, 1, n - 1) \in Seq(Unit)
  BY <1>1, <1>2, ConcatProperties
<1>4. After(chunk, n) \in Seq(Unit)
  BY <1>1, AfterType
<1> QED
  BY <1>1, <1>2, <1>3, <1>4 DEF IInv, Tidy, BlockExact

LEMMA CommandFacts ==
  ASSUME NEW line \in Seq(Unit), Passed(line), NEW s \in {0} \union DOMAIN Bytes
  PROVE  /\ Files(line, s) \in {0} \union DOMAIN Bytes
         /\ ShareAfter(line, s) \in {0} \union DOMAIN Bytes
         /\ line[1].cmd \in Words
         /\ Files(line, s) = ShareAfter(line, s) \/ (Files(line, s) = 0 /\ ShareAfter(line, s) = s)
<1>1. line # <<>> /\ 1 \in DOMAIN line /\ line[1] \in Unit
  BY EmptySeq, ElementOfSeq DEF Passed, Parses
<1>2. line[1].cmd = "INF" => line[1].arg \in {0} \union DOMAIN Bytes
  BY <1>1, UnitFacts, CommandsAssumption
<1> QED
  BY <1>1, <1>2 DEF Passed, Parses, Files, ShareAfter

LEMMA TakeLineInv == ASSUME IInv, TakeLine PROVE IInv'
<1>1. PICK n \in DOMAIN chunk :
        /\ LineEnd(chunk, n)
        /\ LET line == buffer \o SubSeq(chunk, 1, n - 1) IN
             \/ Refuse(line) \/ Skip(line, n) \/ Inject(line, n)
             \/ Command(line, n) \/ Snd(line, n) \/ BadSnd(line)
  BY DEF TakeLine
<1> DEFINE line == buffer \o SubSeq(chunk, 1, n - 1)
<1>2. /\ ~disconnecting /\ pending.got = <<>> /\ line \in Seq(Unit)
      /\ After(chunk, n) \in Seq(Unit) /\ dataBytes = 0
  BY <1>1, LineFacts DEF TakeLine
<1>3. /\ TypeOK /\ (pending.size = 0 => pending = NoRequest) /\ <<>> \in Seq(Unit) /\ NoLineEnd(<<>>)
      /\ NoRequest \in Requests /\ NoRequest.got = <<>> /\ NoRequest.size = 0
  BY EmptySeq DEF IInv, Tidy, NoRequest, Requests, NoLineEnd
<1>4. NeverForgotten
  BY DEF IInv
<1> HIDE DEF line
<1>5. CASE Refuse(line)
  <2>1. Append(line, NL) \in Seq(Unit)
    BY <1>2, AppendProperties DEF Unit
  <2>2. /\ disconnecting' = TRUE /\ chunk' = <<>> /\ buffer' = Append(line, NL) /\ dataBytes' = dataBytes
        /\ pending' = pending /\ filter' = filter /\ share' = share /\ handled' = handled
    BY <1>5 DEF Refuse, bloom
  <2>3. TypeOK'
    BY <1>3, <2>1, <2>2 DEF TypeOK
  <2>4. BlockExact' /\ NeverForgotten' /\ Tidy'
    BY <1>2, <1>3, <2>2 DEF BlockExact, NeverForgotten, Tidy
  <2> QED
    BY <2>3, <2>4 DEF IInv
<1>6. ASSUME Receive(n)
      PROVE  /\ chunk' \in Seq(Unit) /\ buffer' = <<>> /\ disconnecting' \in BOOLEAN
             /\ disconnecting' => chunk' = <<>>
  <2>1. CASE GoOn(n)
    BY <1>2, <1>3, <2>1 DEF GoOn, TypeOK
  <2>2. CASE Leave
    BY <1>3, <2>2 DEF Leave
  <2> QED
    BY <1>6, <2>1, <2>2 DEF Receive
<1>7. CASE Skip(line, n)
  BY <1>2, <1>3, <1>4, <1>7 DEF Skip, GoOn, IInv, TypeOK, BlockExact, NeverForgotten, Tidy, bloom, NoLineEnd
<1>8. CASE Inject(line, n)
  <2>1. handled' \in Words
    BY <1>8 DEF Inject, Injects, Words
  <2> QED
    BY <1>2, <1>3, <1>4, <1>6, <1>8, <2>1
       DEF Inject, IInv, TypeOK, BlockExact, NeverForgotten, Tidy, bloom, NoLineEnd
<1>9. CASE Command(line, n)
  <2>1. /\ share' \in {0} \union DOMAIN Bytes /\ handled' \in Words /\ Receive(n)
        /\ Files(line, share) \in {0} \union DOMAIN Bytes
        /\ Files(line, share) = share' \/ (Files(line, share) = 0 /\ share' = share)
        /\ dataBytes' = 0
    BY <1>2, <1>3, <1>9, CommandFacts DEF Command, TypeOK
  <2>2. CASE Files(line, share) > 0 /\ pending = NoRequest
    <3>1. Files(line, share) \in DOMAIN Bytes /\ Bytes[Files(line, share)] \in Nat \ {0}
      BY <2>1, <2>2, UnitFacts, CommandsAssumption
    <3>2. pending' = [size |-> Bytes[Files(line, share)], got |-> <<>>] /\ filter' = <<>>
      BY <1>9, <2>2 DEF Command, Ask
    <3>3. pending' \in Requests /\ pending'.got = <<>> /\ pending'.size # 0 /\ pending' # NoRequest
      BY <1>3, <3>1, <3>2 DEF Requests, NoRequest
    <3> QED
      BY <1>2, <1>3, <1>6, <2>1, <3>2, <3>3
         DEF IInv, TypeOK, BlockExact, NeverForgotten, Tidy, NoLineEnd
  <2>3. CASE ~(Files(line, share) > 0 /\ pending = NoRequest)
    <3>1. pending' = pending /\ filter' = filter
      BY <1>9, <2>3 DEF Command, Ask, bloom
    <3>2. NeverForgotten'
      BY <1>2, <1>4, <2>1, <2>3, <3>1 DEF NeverForgotten
    <3> QED
      BY <1>2, <1>3, <1>6, <2>1, <3>1, <3>2 DEF IInv, TypeOK, BlockExact, Tidy, NoLineEnd
  <2> QED
    BY <2>2, <2>3
<1>10. CASE Snd(line, n)
  <2>1. pending' = pending /\ filter' = filter /\ share' = share /\ Receive(n)
        /\ dataBytes' = pending.size /\ pending # NoRequest
    BY <1>10 DEF Snd, Announced, bloom
  <2>2. handled' \in Words
    BY <1>2, <1>3, <1>10, CommandFacts DEF Snd, TypeOK
  <2>3. pending.size \in Nat /\ pending.size # 0
    BY <1>3, <2>1, UnitFacts, CommandsAssumption DEF TypeOK, Requests
  <2>4. BlockExact' /\ NeverForgotten'
    BY <1>2, <1>3, <1>6, <2>1, <2>3, EmptySeq DEF BlockExact, NeverForgotten
  <2> QED
    BY <1>2, <1>3, <1>6, <2>1, <2>2, <2>3, <2>4 DEF IInv, TypeOK, Tidy, NoLineEnd
<1>11. CASE BadSnd(line)
  <2>1. handled' \in Words
    BY <1>2, <1>3, <1>11, CommandFacts DEF BadSnd, TypeOK
  <2> QED
    BY <1>2, <1>3, <1>11, <2>1 DEF BadSnd, Leave, IInv, TypeOK, BlockExact, NeverForgotten, Tidy, NoLineEnd
<1> QED
  BY <1>1, <1>5, <1>7, <1>8, <1>9, <1>10, <1>11 DEF line

(* Every step keeps the invariant.                                           *)
LEMMA IInvNext == ASSUME IInv, [Next]_vars PROVE IInv'
<1>1. CASE UNCHANGED vars
  BY <1>1 DEF vars, bloom, IInv, TypeOK, BlockExact, NeverForgotten, Tidy, NoLineEnd
<1> QED
  BY <1>1, OnDataInv, TakeDataInv, TakePartInv, TakeLineInv, DisconnectInv DEF Next

THEOREM Invariance == Spec => []IInv
BY InitInv, IInvNext, PTL DEF Spec

(* Every part of the state of Client::onData and of the Bloom plugin is of   *)
(* its kind: in particular the count of raw data never goes below zero.      *)
THEOREM TypeCorrect == Spec => []TypeOK
BY Invariance, PTL DEF IInv

(* A block never ends early, and never eats a command.                       *)
THEOREM BlocksAreExact == Spec => []BlockExact
BY Invariance, PTL DEF IInv

(* A client that shares is never left without a filter and unasked.          *)
THEOREM NoClientForgotten == Spec => []NeverForgotten
BY Invariance, PTL DEF IInv

-------------------------------------------------------------------------------
(* Every step is a step of the unbroken stream, or none.                     *)

LEMMA SameWords ==
  ASSUME NEW line \in Seq(Unit), NEW s
  PROVE  /\ Stream!Passed(line) = Passed(line) /\ Stream!IsSnd(line) = IsSnd(line)
         /\ Stream!Files(line, s) = Files(line, s) /\ Stream!ShareAfter(line, s) = ShareAfter(line, s)
         /\ Stream!Injects(line) = Injects(line) /\ Stream!Repaired(line) = Repaired(line)
BY DEF Stream!Passed, Passed, Stream!Parses, Parses, Stream!Words, Words, Stream!IsSnd, IsSnd,
       Stream!Files, Files, Stream!ShareAfter, ShareAfter, Stream!Injects, Injects,
       Stream!Repaired, Repaired, Stream!Escaped, Escaped

LEMMA InitMaps == Init => Stream!Init
<1> SUFFICES ASSUME Init PROVE Stream!Init
  OBVIOUS
<1>1. <<>> \o <<>> = <<>>
  OBVIOUS
<1> QED
  BY <1>1 DEF Init, Stream!Init, Unbroken, NoRequest

LEMMA OnDataMaps ==
  ASSUME IInv, NEW c \in Chunks, OnData(c) PROVE Stream!Send \/ UNCHANGED Stream!vars
<1> DEFINE first == IF dataBytes > 0 THEN pending.got ELSE buffer
<1>1. first \in Seq(Unit) /\ c \in Seq(Unit) /\ Len(c) > 0 /\ chunk = <<>>
  BY ChunkType DEF IInv, TypeOK, Requests, OnData
<1>2. /\ buffer' = buffer /\ dataBytes' = dataBytes /\ disconnecting' = disconnecting
      /\ pending' = pending /\ filter' = filter /\ share' = share /\ handled' = handled
      /\ chunk' = IF disconnecting THEN <<>> ELSE c
  BY DEF OnData, bloom
<1>3. CASE disconnecting
  BY <1>1, <1>2, <1>3 DEF Stream!vars, Unbroken
<1>4. CASE ~disconnecting
  <2>1. Unbroken = first /\ Unbroken' = first \o c
    <3>1. first \o <<>> = first
      BY <1>1, ConcatEmptySeq
    <3> QED
      BY <1>1, <1>2, <1>4, <3>1 DEF Unbroken
  <2>2. Len(first \o c) > Len(first)
    BY <1>1, ConcatProperties
  <2>3. SubSeq(first \o c, 1, Len(first)) = first
    <3> HIDE DEF first
    <3>1. SubSeq(first \o c, 1, Len(first) + 0) = first \o SubSeq(c, 1, 0)
      BY <1>1, CutLeft
    <3>2. SubSeq(c, 1, 0) = <<>>
      BY <1>1
    <3> QED
      BY <1>1, <3>1, <3>2, ConcatEmptySeq
  <2> QED
    BY <1>2, <1>4, <2>1, <2>2, <2>3 DEF Stream!Send
<1> QED
  BY <1>3, <1>4

LEMMA TakePartMaps == ASSUME IInv, TakePart PROVE UNCHANGED Stream!vars
<1>1. /\ chunk \in Seq(Unit) /\ buffer \in Seq(Unit) /\ chunk # <<>> /\ dataBytes = 0 /\ ~disconnecting
      /\ buffer' = buffer \o chunk /\ chunk' = <<>> /\ dataBytes' = dataBytes
      /\ disconnecting' = disconnecting /\ pending' = pending /\ filter' = filter
      /\ share' = share /\ handled' = handled
  BY DEF IInv, TypeOK, Tidy, TakePart, bloom
<1>2. (buffer \o chunk) \o <<>> = buffer \o chunk
  BY <1>1, ConcatProperties, ConcatEmptySeq
<1> QED
  BY <1>1, <1>2 DEF Stream!vars, Unbroken

LEMMA DisconnectMaps == ASSUME IInv, Disconnect PROVE Stream!Close \/ UNCHANGED Stream!vars
<1>1. /\ disconnecting' = TRUE /\ UNCHANGED <<dataBytes, pending, filter, share, handled>>
      /\ disconnecting \in BOOLEAN /\ Unbroken' = <<>>
  BY DEF IInv, TypeOK, Disconnect, bloom, Unbroken
<1>2. CASE disconnecting
  BY <1>1, <1>2 DEF Stream!vars, Unbroken
<1>3. CASE ~disconnecting
  BY <1>1, <1>3 DEF Stream!Close
<1> QED
  BY <1>1, <1>2, <1>3

LEMMA TakeDataMaps == ASSUME IInv, TakeData PROVE Stream!Block \/ UNCHANGED Stream!vars
<1> DEFINE n == Smaller(dataBytes, Len(chunk))
           got == pending.got \o SubSeq(chunk, 1, n)
<1>1. /\ chunk \in Seq(Unit) /\ pending.got \in Seq(Unit) /\ dataBytes \in Nat
      /\ dataBytes > 0 /\ ~disconnecting /\ chunk # <<>> /\ disconnecting \in BOOLEAN
      /\ pending.size = dataBytes + Len(pending.got) /\ buffer = <<>>
  BY DEF IInv, TypeOK, TakeData, Requests, Tidy, BlockExact
<1>2. n \in 1..Len(chunk) /\ n <= dataBytes /\ (n = dataBytes \/ n = Len(chunk))
  BY <1>1, EmptySeq DEF Smaller
<1>3. Len(SubSeq(chunk, 1, n)) = n /\ SubSeq(chunk, 1, n) \in Seq(Unit) /\ After(chunk, n) \in Seq(Unit)
  BY <1>1, <1>2, PrefixType, AfterType
<1>4. got \in Seq(Unit) /\ Len(got) = Len(pending.got) + n
  BY <1>1, <1>3, ConcatProperties
<1>5. /\ chunk' = After(chunk, n) /\ dataBytes' = dataBytes - n /\ buffer' = buffer
      /\ disconnecting' = disconnecting /\ share' = share /\ handled' = handled
      /\ BloomData(SubSeq(chunk, 1, n))
  BY DEF TakeData
<1>6. SubSeq(pending.got \o chunk, 1, Len(pending.got) + n) = got
  <2> HIDE DEF n
  <2>1. n \in 0..Len(chunk)
    BY <1>1, <1>2
  <2> QED
    BY <1>1, <2>1, CutLeft
<1>7. SubSeq(pending.got \o chunk, Len(pending.got) + n + 1, Len(pending.got \o chunk)) = After(chunk, n)
  <2> HIDE DEF n
  <2>1. n \in 0..Len(chunk)
    BY <1>1, <1>2
  <2> QED
    BY <1>1, <2>1, CutRight DEF After
<1>8. Unbroken = pending.got \o chunk /\ Len(pending.got \o chunk) = Len(pending.got) + Len(chunk)
  BY <1>1, ConcatProperties DEF Unbroken
<1>9. CASE n = dataBytes
  <2>1. filter' = got /\ pending' = NoRequest /\ pending.size = Len(pending.got) + n
    BY <1>1, <1>2, <1>4, <1>5, <1>9 DEF BloomData
  <2>2. dataBytes' = 0 /\ Unbroken' = After(chunk, n)
    <3>1. <<>> \o After(chunk, n) = After(chunk, n)
      BY <1>3, ConcatEmptySeq
    <3> QED
      BY <1>1, <1>5, <1>9, <3>1 DEF Unbroken
  <2> HIDE DEF n, got
  <2>3. Len(Unbroken) >= pending.size
    BY <1>1, <1>2, <1>8, <2>1
  <2>4. filter' = SubSeq(Unbroken, 1, pending.size) /\ Unbroken' = Stream!Rest(pending.size)
    BY <1>6, <1>7, <1>8, <2>1, <2>2 DEF Stream!Rest
  <2> QED
    BY <1>1, <1>5, <2>1, <2>2, <2>3, <2>4 DEF Stream!Block, NoRequest
<1>10. CASE n # dataBytes
  <2>1. filter' = filter /\ pending' = [pending EXCEPT !.got = got]
    BY <1>1, <1>2, <1>4, <1>5, <1>10 DEF BloomData
  <2>2. pending'.got = got /\ pending'.size = pending.size
    BY <2>1 DEF IInv, TypeOK, Requests
  <2>3. n = Len(chunk) /\ dataBytes' > 0
    BY <1>1, <1>2, <1>5, <1>10
  <2>4. SubSeq(chunk, 1, n) = chunk /\ After(chunk, n) = <<>>
    BY <1>1, <2>3 DEF After
  <2>5. Unbroken' = pending.got \o chunk
    <3>1. (pending.got \o chunk) \o <<>> = pending.got \o chunk
      BY <1>1, ConcatProperties, ConcatEmptySeq
    <3> HIDE DEF n
    <3> QED
      BY <1>1, <1>5, <2>2, <2>3, <2>4, <3>1 DEF Unbroken
  <2> QED
    BY <1>1, <1>5, <1>8, <2>1, <2>2, <2>3, <2>5 DEF Stream!vars
<1> QED
  BY <1>9, <1>10

(* A line that ends at n in the chunk ends at N in the unbroken stream.      *)
LEMMA SameLine ==
  ASSUME IInv, chunk # <<>>, dataBytes = 0, NEW n \in DOMAIN chunk, LineEnd(chunk, n)
  PROVE  LET N == Len(buffer) + n IN
         /\ N \in DOMAIN Unbroken /\ Stream!IsLine(N)
         /\ SubSeq(Unbroken, 1, N - 1) = buffer \o SubSeq(chunk, 1, n - 1)
         /\ Stream!Rest(N) = After(chunk, n)
<1> DEFINE N == Len(buffer) + n
<1>1. chunk \in Seq(Unit) /\ buffer \in Seq(Unit) /\ n \in 1..Len(chunk) /\ ~disconnecting /\ NoLineEnd(buffer)
  BY LineFacts DEF IInv, TypeOK, Tidy
<1>2. Unbroken = buffer \o chunk
  BY <1>1 DEF Unbroken
<1>3. /\ Len(buffer \o chunk) = Len(buffer) + Len(chunk) /\ buffer \o chunk \in Seq(Unit)
      /\ \A i \in 1..(Len(buffer) + Len(chunk)) :
           (buffer \o chunk)[i] = IF i <= Len(buffer) THEN buffer[i] ELSE chunk[i - Len(buffer)]
  BY <1>1, ConcatProperties
<1>4. N \in 1..Len(Unbroken) /\ N \in DOMAIN Unbroken
  BY <1>1, <1>2, <1>3
<1>5. Stream!IsLine(N)
  <2>1. Unbroken[N] = chunk[n]
    BY <1>1, <1>2, <1>3, <1>4
  <2>2. chunk[n] = NL /\ \A i \in 1..(n - 1) : chunk[i] # NL
    BY DEF LineEnd
  <2>3. ASSUME NEW i \in 1..(N - 1) PROVE Unbroken[i] # NL
    <3>1. CASE i <= Len(buffer)
      BY <1>1, <1>2, <1>3, <1>4, <3>1 DEF NoLineEnd
    <3>2. CASE i > Len(buffer)
      BY <1>1, <1>2, <1>3, <1>4, <2>2, <3>2
    <3> QED
      BY <1>1, <3>1, <3>2
  <2>4. Stream!NL = NL
    BY DEF Stream!NL, NL
  <2> QED
    BY <2>1, <2>2, <2>3, <2>4 DEF Stream!IsLine
<1>6. SubSeq(buffer \o chunk, 1, Len(buffer) + (n - 1)) = buffer \o SubSeq(chunk, 1, n - 1)
  <2>1. n - 1 \in 0..Len(chunk)
    BY <1>1
  <2> QED
    BY <1>1, <2>1, CutLeft
<1>7. N - 1 = Len(buffer) + (n - 1)
  BY <1>1
<1>8. Stream!Rest(N) = After(chunk, n)
  <2>1. n \in 0..Len(chunk)
    BY <1>1
  <2>2. SubSeq(buffer \o chunk, Len(buffer) + n + 1, Len(buffer \o chunk)) = SubSeq(chunk, n + 1, Len(chunk))
    BY <1>1, <2>1, CutRight
  <2> QED
    BY <1>2, <2>2 DEF Stream!Rest, After
<1> QED
  BY <1>2, <1>4, <1>5, <1>6, <1>7, <1>8

LEMMA TakeLineMaps == ASSUME IInv, TakeLine PROVE Stream!Line \/ Stream!Close
<1>1. PICK n \in DOMAIN chunk :
        /\ LineEnd(chunk, n)
        /\ LET line == buffer \o SubSeq(chunk, 1, n - 1) IN
             \/ Refuse(line) \/ Skip(line, n) \/ Inject(line, n)
             \/ Command(line, n) \/ Snd(line, n) \/ BadSnd(line)
  BY DEF TakeLine
<1> DEFINE line == buffer \o SubSeq(chunk, 1, n - 1)
           N == Len(buffer) + n
<1>2. /\ ~disconnecting /\ pending.got = <<>> /\ line \in Seq(Unit)
      /\ After(chunk, n) \in Seq(Unit) /\ dataBytes = 0 /\ disconnecting \in BOOLEAN
  BY <1>1, LineFacts DEF TakeLine, IInv, TypeOK
<1>3. /\ N \in DOMAIN Unbroken /\ Stream!IsLine(N)
      /\ line = SubSeq(Unbroken, 1, N - 1) /\ Stream!Rest(N) = After(chunk, n)
  BY <1>1, SameLine DEF TakeLine
<1>4. pending.size = 0 <=> pending = NoRequest
  BY DEF IInv, Tidy, NoRequest
<1> HIDE DEF line, N
<1>5. /\ Stream!Passed(line) = Passed(line) /\ Stream!IsSnd(line) = IsSnd(line)
      /\ Stream!Files(line, share) = Files(line, share)
      /\ Stream!ShareAfter(line, share) = ShareAfter(line, share)
      /\ Stream!Injects(line) = Injects(line) /\ Stream!Repaired(line) = Repaired(line)
  BY <1>2, SameWords
<1>6. ASSUME GoOn(n) \/ Leave, dataBytes' > 0 => pending'.got = <<>>
      PROVE  Stream!Take(N)
  <2>1. CASE Leave
    BY <2>1 DEF Leave, Stream!Take, Unbroken
  <2>2. CASE GoOn(n)
    <3>1. <<>> \o After(chunk, n) = After(chunk, n)
      BY <1>2, ConcatEmptySeq
    <3>2. Unbroken' = After(chunk, n) /\ ~disconnecting' /\ disconnecting' \in BOOLEAN
      BY <1>2, <1>6, <2>2, <3>1 DEF GoOn, Unbroken
    <3> QED
      BY <1>3, <3>2 DEF Stream!Take
  <2> QED
    BY <1>6, <2>1, <2>2
<1>6a. ASSUME Stream!Take(N), Passed(line), handled' = line[1].cmd,
              Stream!Snd(line) \/ Stream!BadSnd(line) \/ Stream!Command(line)
       PROVE  Stream!Line
  <2> DEFINE l == SubSeq(Unbroken, 1, N - 1)
  <2>1. Stream!Passed(l) /\ handled' = l[1].cmd /\ (Stream!Snd(l) \/ Stream!BadSnd(l) \/ Stream!Command(l))
    BY <1>3, <1>5, <1>6a
  <2>2. ~disconnecting /\ ~(dataBytes > 0) /\ N \in DOMAIN Unbroken /\ Stream!IsLine(N) /\ Stream!Take(N)
    BY <1>2, <1>3, <1>6a
  <2> QED
    BY <2>1, <2>2, ZenonT(30) DEF Stream!Line
<1>7. CASE Refuse(line)
  BY <1>2, <1>7 DEF Refuse, bloom, Stream!Close, Unbroken
<1>8. CASE Skip(line, n)
  <2>1. ~Passed(line) /\ Stream!Take(N) /\ handled' = handled
        /\ UNCHANGED <<dataBytes, pending, filter, share>>
    BY <1>2, <1>6, <1>8 DEF Skip, Passed, bloom
  <2> QED
    BY <1>2, <1>3, <1>5, <2>1 DEF Stream!Line, TakeLine
<1>9. CASE Inject(line, n)
  <2>1. ~Passed(line) /\ Stream!Take(N) /\ Injects(line) /\ handled' = Repaired(line)[1].cmd
        /\ UNCHANGED <<dataBytes, pending, filter, share>>
    BY <1>2, <1>6, <1>9 DEF Inject, Receive, Passed, bloom
  <2> QED
    BY <1>2, <1>3, <1>5, <2>1 DEF Stream!Line
<1>10. CASE Command(line, n)
  <2>1. /\ Passed(line) /\ ~IsSnd(line) /\ handled' = line[1].cmd /\ dataBytes' = 0
        /\ share' = ShareAfter(line, share) /\ Ask(Files(line, share)) /\ Receive(n)
    BY <1>2, <1>10 DEF Command
  <2>2. Stream!Take(N)
    BY <1>6, <2>1 DEF Receive
  <2>3. IF pending.size = 0 /\ Files(line, share) > 0
        THEN pending'.size = Bytes[Files(line, share)] /\ filter' = <<>>
        ELSE pending'.size = pending.size /\ filter' = filter
    BY <1>4, <2>1 DEF Ask, bloom
  <2>4. Stream!Command(line)
    BY <1>5, <2>1, <2>3 DEF Stream!Command
  <2> QED
    BY <1>6a, <2>1, <2>2, <2>4
<1>11. CASE Snd(line, n)
  <2>1. /\ Passed(line) /\ IsSnd(line) /\ handled' = line[1].cmd /\ dataBytes' = pending.size
        /\ UNCHANGED <<pending, filter, share>> /\ Receive(n)
        /\ pending # NoRequest /\ line[1].arg = pending.size
    BY <1>11 DEF Snd, Announced, bloom
  <2>2. Stream!Take(N)
    BY <1>2, <1>6, <2>1 DEF Receive
  <2>3. pending.size \in Nat /\ pending.size > 0
    BY <1>4, <2>1, UnitFacts, CommandsAssumption DEF IInv, TypeOK, Requests
  <2>4. Stream!Snd(line)
    BY <1>5, <2>1, <2>3 DEF Stream!Snd, Stream!Announces
  <2> QED
    BY <1>6a, <2>1, <2>2, <2>4
<1>12. CASE BadSnd(line)
  <2>1. /\ Passed(line) /\ IsSnd(line) /\ handled' = line[1].cmd
        /\ pending' = NoRequest /\ UNCHANGED <<dataBytes, filter, share>> /\ Leave
        /\ ~(pending # NoRequest /\ line[1].arg = pending.size)
    BY <1>12 DEF BadSnd, Announced
  <2>2. Stream!Take(N)
    BY <1>2, <1>6, <2>1
  <2>3. Stream!BadSnd(line)
    BY <1>4, <1>5, <2>1 DEF Stream!BadSnd, Stream!Announces, Leave, NoRequest
  <2> QED
    BY <1>6a, <2>1, <2>2, <2>3
<1> QED
  BY <1>1, <1>7, <1>8, <1>9, <1>10, <1>11, <1>12 DEF line

(* Client::onData, with the Bloom and RTF0 plugins, reads an unbroken stream *)
(* of lines and blocks, whatever chunks the network makes of it.             *)
THEOREM ReadsAStream == Spec => StreamSpec
<1>1. ASSUME IInv, [Next]_vars PROVE [Stream!Next]_(Stream!vars)
  <2>1. CASE UNCHANGED vars
    BY <2>1 DEF vars, bloom, Stream!vars, Unbroken
  <2> QED
    BY <1>1, <2>1, OnDataMaps, TakeDataMaps, TakePartMaps, TakeLineMaps, DisconnectMaps DEF Next, Stream!Next
<1> QED
  BY InitMaps, Invariance, <1>1, PTL DEF Spec, StreamSpec, Stream!Spec
===============================================================================
