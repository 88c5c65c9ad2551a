-------------------------- MODULE LedgerFileProofs --------------------------
(***************************************************************************)
(* What one partition file of the command ledger keeps, for any number of  *)
(* records and process lives: what can be read is one chain from GENESIS,  *)
(* it only grows, and the records returned before a write failed half way  *)
(* are in it.                                                              *)
(***************************************************************************)
EXTENDS LedgerFile, WellFoundedInduction, TLAPS

Piece == Entry \cup {Header, Prefix}

\* The pieces of a file f a reader gets to: f[1] to f[n], and f[n + 1] is
\* broken or there is none.
Reaches(f, n) ==
  /\ n \in 0..Len(f)
  /\ \A i \in 1..n : f[i] \in Entry
  /\ n = Len(f) \/ f[n + 1] \notin Entry

\* TypeOK without the history of failures, which the bounds below need.
Types ==
  /\ file \in Seq(Piece)
  /\ chain \in ChainState \cup {NoChain}
  /\ append = AtRest \/ append \in [pc : {"length", "body", "return"}, record : Entry]
  /\ acked \in Seq(Entry)
  /\ up \in BOOLEAN /\ lives \in Nat /\ sound \in 0..NoTear

\* A frame has a place for every record that was returned, and for the one
\* under way.
Places ==
  /\ Len(file) <= MaxRecords
  /\ append.pc = "length" => Len(file) < MaxRecords
  /\ Len(acked) <= Len(file)
  /\ append.pc \in {"body", "return"} => Len(acked) < Len(file)
  /\ sound # NoTear => sound <= Len(acked)

LastHash(n) == IF n = 0 THEN << >> ELSE Hash(file[n])

\* What each step of an append relies on.  While every piece is whole the
\* chain state in memory is that of the file, and the record under way is the
\* next one.
AppendFollows ==
  LET whole(n) == \A i \in 1..n : file[i] \in Entry
  IN /\ ~up => append = AtRest
     /\ append.pc = "length" => chain # NoChain
     /\ append.pc \in {"none", "length"} /\ chain # NoChain /\ whole(Len(file)) =>
          chain.next_seq = Len(file) + 1 /\ chain.last_hash = LastHash(Len(file))
     /\ append.pc = "length" =>
          append.record.seq = chain.next_seq /\ append.record.prev = chain.last_hash
     /\ append.pc = "body" => file[Len(file)] = Header
     /\ append.pc = "body" /\ whole(Len(file) - 1) =>
          append.record.seq = Len(file) /\ append.record.prev = LastHash(Len(file) - 1)
     /\ append.pc = "return" => file[Len(file)] = append.record

\* The records before the first broken piece are linked.
Linked ==
  \A i \in 1..Len(file) : (\A j \in 1..i : file[j] \in Entry) =>
    file[i].seq = i /\ file[i].prev = LastHash(i - 1)

\* Before a write fails half way only a killed append leaves a broken piece,
\* the last one, and no process starts on it.
SoundWhole ==
  sound = NoTear =>
    \A i \in 1..Len(file) :
      \/ file[i] \in Entry
      \/ i = Len(file) /\ file[i] = Header /\ (append.pc = "body" \/ ~up)

AckedKept ==
  \A k \in 1..Len(acked) : k <= sound =>
    /\ acked[k].seq \in 1..Len(file) /\ file[acked[k].seq] = acked[k]
    /\ \A j \in 1..acked[k].seq : file[j] \in Entry

IInv == Types /\ Places /\ AppendFollows /\ Linked /\ SoundWhole /\ AckedKept
-----------------------------------------------------------------------------
(* Reading a file.                                                           *)

\* What Readable is, without the choice in its definition.
ReadsAll ==
  /\ Readable \in Seq(Entry) /\ Reaches(file, Len(Readable))
  /\ \A i \in 1..Len(Readable) : Readable[i] = file[i]

LEMMA ReadableReaches == Types => ReadsAll
<1>. SUFFICES ASSUME file \in Seq(Piece) PROVE ReadsAll
  BY DEF Types
<1>. USE FileAssumption DEF ReadsAll
<1>1. Torn = {i \in 1..Len(file) : file[i] \notin Entry}
  BY DEF Torn, Piece
<1>2. CASE Torn = {}
  <2>1. file \in Seq(Entry)
    BY <1>1, <1>2, \A i \in 1..Len(file) : file[i] \in Entry
  <2>. QED BY <1>1, <1>2, <2>1 DEF Readable, Reaches
<1>3. CASE Torn # {}
  <2>. DEFINE t == CHOOSE i \in Torn : \A j \in Torn : i <= j
  <2>1. t \in Torn /\ \A j \in Torn : t <= j
    <3>1. Torn \in SUBSET Nat
      BY <1>1
    <3>. DEFINE Less == OpToRel(<, Nat)
    <3>2. PICK m \in Torn : \A j \in Torn : <<j, m>> \notin Less
      BY <1>3, <3>1, WFMin, NatLessThanWellFounded
    <3>3. \A j, n \in Nat : j < n => <<j, n>> \in Less
      BY DEF OpToRel
    <3>. HIDE DEF Less
    <3>4. \A j \in Torn : j \in Nat /\ m \in Nat /\ ~(j < m)
      BY <3>1, <3>2, <3>3
    <3>5. \A j \in Torn : m <= j
      BY <3>4
    <3>. QED BY <3>5
  <2>2. t \in 1..Len(file) /\ Readable = SubSeq(file, 1, t - 1)
    <3>1. Readable = SubSeq(file, 1, t - 1)
      BY <1>3 DEF Readable
    <3>. QED BY <1>1, <2>1, <3>1
  <2>. HIDE DEF t
  <2>3. /\ Len(Readable) = t - 1 /\ Readable \in Seq(Piece)
        /\ \A i \in 1..(t - 1) : Readable[i] = file[i]
    BY <2>2
  <2>4. \A i \in 1..(t - 1) : file[i] \in Entry
    BY <1>1, <2>1, <2>2
  <2>5. Readable \in Seq(Entry)
    BY <2>3, <2>4
  <2>. QED BY <1>1, <2>1, <2>2, <2>3, <2>4, <2>5 DEF Reaches
<1>. QED BY <1>2, <1>3

\* A reader gets equally far, or further, in a file that is extended.
LEMMA ReachesFurther ==
  ASSUME NEW f \in Seq(Piece), NEW g \in Seq(Piece), NEW m, NEW n,
         Reaches(f, m), Reaches(g, n), Len(f) <= Len(g),
         \A i \in 1..Len(f) : f[i] \in Entry => g[i] = f[i]
  PROVE  m <= n /\ \A i \in 1..m : g[i] = f[i]
<1>1. \A i \in 1..m : g[i] = f[i] /\ g[i] \in Entry
  BY DEF Reaches
<1>2. m \in Nat /\ n \in Nat /\ m <= Len(g) /\ n <= Len(g)
  BY DEF Reaches
<1>3. ~(n < m)
  <2>. SUFFICES ASSUME n < m PROVE FALSE
    OBVIOUS
  <2>1. n + 1 \in 1..m /\ n # Len(g)
    BY <1>2
  <2>. QED BY <1>1, <2>1 DEF Reaches
<1>. QED BY <1>1, <1>2, <1>3
-----------------------------------------------------------------------------
(* Every step keeps the invariant.                                           *)

\* A record's hash is a sequence of payloads, and a chain state is built of
\* what the last record says.
LEMMA HashType == \A r \in Entry : Hash(r) \in Seq(Payloads)
BY DEF Entry, Hash

\* Where the file reads clean and is whole, the recovered chain state is that
\* of its last record.
LEMMA RecoverFollows ==
  ASSUME Types, Linked
  PROVE  /\ Recover \in ChainState
         /\ (\A i \in 1..Len(file) : file[i] \in Entry) =>
              Recover = [next_seq |-> Len(file) + 1, last_hash |-> LastHash(Len(file))]
<1>1. /\ Readable \in Seq(Entry) /\ Reaches(file, Len(Readable))
      /\ \A i \in 1..Len(Readable) : Readable[i] = file[i]
  BY ReadableReaches DEF ReadsAll
<1>2. CASE Readable = << >>
  <2>1. Recover = Genesis /\ Len(Readable) = 0
    BY <1>2 DEF Recover
  <2>2. (\A i \in 1..Len(file) : file[i] \in Entry) => Len(file) = 0
    BY <1>1, <2>1 DEF Reaches, Types
  <2>. QED BY <2>1, <2>2 DEF Genesis, ChainState, LastHash
<1>3. CASE Readable # << >>
  <2>. DEFINE n == Len(Readable)
  <2>1. n \in 1..Len(file) /\ Readable[n] = file[n] /\ file[n] \in Entry
    BY <1>1, <1>3 DEF Reaches
  <2>2. Recover = [next_seq |-> file[n].seq + 1, last_hash |-> Hash(file[n])]
    BY <1>3, <2>1 DEF Recover
  <2>3. file[n].seq = n
    BY <1>1, <2>1 DEF Linked, Reaches
  <2>4. (\A i \in 1..Len(file) : file[i] \in Entry) => n = Len(file)
    BY <1>1, <2>1 DEF Reaches, Types
  <2>5. n \in Nat /\ n # 0
    BY <2>1 DEF Types
  <2>. QED BY <2>1, <2>2, <2>3, <2>4, <2>5, HashType DEF ChainState, LastHash
<1>. QED BY <1>2, <1>3

\* What was returned stays where it was written, in a file that keeps its
\* entries in their places, while the failures so far do not excuse more.
LEMMA AckedStays ==
  ASSUME Types, Places, AckedKept, UNCHANGED acked, Len(file) <= Len(file'), Len(file') \in Nat,
         \A i \in 1..Len(file) : file[i] \in Entry => file'[i] = file[i],
         sound' = sound \/ sound = NoTear
  PROVE  AckedKept'
<1>. SUFFICES ASSUME NEW k \in 1..Len(acked), k <= sound'
     PROVE /\ acked[k].seq \in 1..Len(file') /\ file'[acked[k].seq] = acked[k]
           /\ \A j \in 1..acked[k].seq : file'[j] \in Entry
  BY DEF AckedKept
<1>1. k <= sound
  BY FileAssumption DEF Places, Types, NoTear
<1>2. /\ acked[k].seq \in 1..Len(file) /\ file[acked[k].seq] = acked[k]
      /\ \A j \in 1..acked[k].seq : file[j] \in Entry
  BY <1>1 DEF AckedKept
<1>3. acked[k].seq \in 1..Len(file') /\ \A j \in 1..acked[k].seq : j \in 1..Len(file)
  BY <1>2 DEF Types
<1>. QED BY <1>2, <1>3

LEMMA Inductive == IInv /\ [Next]_vars => IInv'
<1>. SUFFICES ASSUME IInv, [Next]_vars PROVE IInv'
  OBVIOUS
<1>. USE FileAssumption DEF IInv, AtRest, NoTear
<1>1. CASE Start
  <2>1. Types' /\ Places' /\ AppendFollows' /\ Linked' /\ AckedKept'
    BY <1>1 DEF Start, Types, Places, AppendFollows, Linked, LastHash, AckedKept
  <2>2. SoundWhole'
    <3>1. \A i \in Torn : file[i] = Prefix
      BY <1>1 DEF Start, ReadsClean
    <3>. QED BY <1>1, <3>1 DEF Start, SoundWhole, Torn, Types
  <2>. QED BY <2>1, <2>2
<1>2. CASE BeginAppend
  <2>. DEFINE state == IF chain = NoChain THEN Recover ELSE chain
  <2>1. PICK p \in Payloads :
          append' = [pc |-> "length",
                     record |-> [seq |-> state.next_seq, prev |-> state.last_hash, payload |-> p]]
    BY <1>2 DEF BeginAppend
  <2>2. /\ state \in ChainState /\ state # NoChain
        /\ (\A i \in 1..Len(file) : file[i] \in Entry) =>
             state.next_seq = Len(file) + 1 /\ state.last_hash = LastHash(Len(file))
    BY <1>2, RecoverFollows DEF BeginAppend, AppendFollows, Types, ChainState
  <2>3. chain' = state /\ Len(file) < MaxRecords /\ up
        /\ UNCHANGED <<file, acked, up, lives, sound>>
    BY <1>2 DEF BeginAppend
  <2>. HIDE DEF state
  <2>4. Types'
    BY <2>1, <2>2, <2>3 DEF Types, ChainState, Entry
  <2>5. Places' /\ AppendFollows'
    BY <2>1, <2>2, <2>3, <1>2 DEF BeginAppend, Places, AppendFollows, LastHash
  <2>6. Linked' /\ SoundWhole' /\ AckedKept'
    BY <1>2, <2>3 DEF BeginAppend, Linked, LastHash, SoundWhole, AckedKept
  <2>. QED BY <2>4, <2>5, <2>6
<1>3. CASE WriteLength
  <2>1. /\ file' \in Seq(Piece) /\ Len(file') = Len(file) + 1 /\ Len(file) \in Nat
        /\ file'[Len(file) + 1] = Header
        /\ \A i \in 1..Len(file) : file'[i] = file[i]
    BY <1>3 DEF WriteLength, Types, Piece
  <2>2. /\ append.pc = "length" /\ append' = [pc |-> "body", record |-> append.record]
        /\ UNCHANGED <<chain, acked, up, lives, sound>>
    BY <1>3 DEF WriteLength, Types
  <2>3. Types'
    BY <2>1, <2>2 DEF Types
  <2>4. Places'
    BY <2>1, <2>2 DEF Places, Types
  <2>5. AppendFollows'
    BY <2>1, <2>2 DEF AppendFollows, LastHash
  <2>6. Linked'
    <3>. SUFFICES ASSUME NEW i \in 1..Len(file'), \A j \in 1..i : file'[j] \in Entry
         PROVE file'[i].seq = i /\ file'[i].prev = LastHash(i - 1)'
      BY DEF Linked
    <3>1. i \in 1..Len(file)
      BY <2>1
    <3>2. file'[i] = file[i] /\ LastHash(i - 1)' = LastHash(i - 1)
      BY <2>1, <3>1 DEF LastHash
    <3>3. \A j \in 1..i : file[j] \in Entry
      BY <2>1, <3>1
    <3>. QED BY <3>1, <3>2, <3>3 DEF Linked
  <2>7. SoundWhole'
    BY <2>1, <2>2 DEF SoundWhole, AppendFollows
  <2>8. AckedKept'
    BY <2>1, <2>2, AckedStays
  <2>. QED BY <2>3, <2>4, <2>5, <2>6, <2>7, <2>8
<1>4. CASE WriteBody
  <2>. DEFINE n == Len(file)
  <2>1. n \in Nat \ {0} /\ append.record \in Entry /\ append.pc = "body" /\ up
    BY <1>4 DEF WriteBody, Types, Places, AppendFollows
  <2>2. /\ file' \in Seq(Piece) /\ Len(file') = n
        /\ file'[n] = append.record /\ file[n] = Header
        /\ \A i \in 1..(n - 1) : file'[i] = file[i]
    BY <1>4, <2>1 DEF WriteBody, Types, Piece, AppendFollows
  <2>3. /\ append' = [pc |-> "return", record |-> append.record]
        /\ UNCHANGED <<chain, acked, up, lives, sound>>
    BY <1>4 DEF WriteBody, Types
  <2>. HIDE DEF n
  <2>4. Types'
    BY <2>1, <2>2, <2>3 DEF Types
  <2>5. Places' /\ AppendFollows'
    BY <2>1, <2>2, <2>3 DEF Places, AppendFollows, n
  <2>6. Linked'
    <3>. SUFFICES ASSUME NEW i \in 1..n, \A j \in 1..i : file'[j] \in Entry
         PROVE file'[i].seq = i /\ file'[i].prev = LastHash(i - 1)'
      BY <2>2 DEF Linked
    <3>1. /\ \A j \in 1..(i - 1) : file[j] \in Entry
          /\ LastHash(i - 1)' = LastHash(i - 1)
      BY <2>1, <2>2 DEF LastHash
    <3>2. CASE i = n
      BY <2>1, <2>2, <3>1, <3>2 DEF AppendFollows, n
    <3>3. CASE i # n
      BY <2>1, <2>2, <3>1, <3>3 DEF Linked, n
    <3>. QED BY <3>2, <3>3
  <2>7. SoundWhole'
    BY <2>1, <2>2, <2>3 DEF SoundWhole, n
  <2>8. AckedKept'
    BY <2>1, <2>2, <2>3, AckedStays DEF n
  <2>. QED BY <2>4, <2>5, <2>6, <2>7, <2>8
<1>5. CASE ReturnRecord
  <2>. DEFINE r == append.record
  <2>1. /\ r \in Entry /\ append.pc = "return" /\ up /\ append' = AtRest
        /\ UNCHANGED <<file, up, lives, sound>>
        /\ chain' = [next_seq |-> r.seq + 1, last_hash |-> Hash(r)] /\ chain' \in ChainState
    BY <1>5, HashType DEF ReturnRecord, Types, AppendFollows, ChainState, Entry
  <2>2. /\ acked' = Append(acked, r) /\ acked' \in Seq(Entry) /\ Len(acked') = Len(acked) + 1
        /\ acked'[Len(acked) + 1] = r /\ \A k \in 1..Len(acked) : acked'[k] = acked[k]
    BY <1>5, <2>1 DEF ReturnRecord, Types
  <2>3. Len(file) \in Nat \ {0} /\ file[Len(file)] = r
    BY <2>1 DEF Places, AppendFollows, Types
  <2>. HIDE DEF r
  <2>4. Types' /\ Places'
    BY <2>1, <2>2 DEF Types, Places
  <2>5. (\A i \in 1..Len(file) : file[i] \in Entry) => r.seq = Len(file)
    BY <2>1, <2>3 DEF Linked
  <2>6. AppendFollows'
    BY <2>1, <2>3, <2>5 DEF AppendFollows, LastHash
  <2>7. Linked' /\ SoundWhole'
    BY <2>1 DEF Linked, LastHash, SoundWhole
  <2>8. AckedKept'
    <3>1. Len(acked) + 1 <= sound => sound = NoTear
      BY DEF Places, Types
    <3>2. sound = NoTear => \A i \in 1..Len(file) : file[i] \in Entry
      BY <2>1 DEF SoundWhole
    <3>. QED BY <2>1, <2>2, <2>3, <2>5, <3>1, <3>2 DEF AckedKept, Types
  <2>. QED BY <2>4, <2>6, <2>7, <2>8
<1>6. CASE WriteFails
  <2>1. /\ append' = AtRest /\ append.pc \in {"length", "body"} /\ up
        /\ UNCHANGED <<chain, acked, up, lives>>
    BY <1>6 DEF WriteFails, AppendFollows
  <2>2. CASE append.pc = "length" /\ file' = file
    <3>1. sound' = sound
      BY <1>6, <2>2 DEF WriteFails
    <3>2. Types' /\ Places' /\ AppendFollows'
      BY <2>1, <2>2, <3>1 DEF Types, Places, AppendFollows, LastHash
    <3>3. Linked' /\ SoundWhole' /\ AckedKept'
      BY <2>1, <2>2, <3>1 DEF Linked, LastHash, SoundWhole, AckedKept
    <3>. QED BY <3>2, <3>3
  <2>3. CASE append.pc = "length" /\ file' = Append(file, Prefix)
    <3>1. /\ file' \in Seq(Piece) /\ Len(file') = Len(file) + 1 /\ Len(file) \in Nat
          /\ file'[Len(file) + 1] = Prefix
          /\ \A i \in 1..Len(file) : file'[i] = file[i]
      BY <2>3 DEF Types, Piece
    <3>2. sound' = (IF sound = NoTear THEN Len(acked) ELSE sound)
      BY <1>6, <2>3, <3>1 DEF WriteFails
    <3>3. Types' /\ Places'
      BY <2>1, <2>3, <3>1, <3>2 DEF Types, Places
    <3>4. AppendFollows' /\ Linked'
      BY <2>1, <2>3, <3>1 DEF AppendFollows, Linked, LastHash
    <3>5. SoundWhole'
      BY <2>1, <3>2, <3>3 DEF SoundWhole, Types, Places
    <3>6. AckedKept'
      BY <2>1, <3>1, <3>2, AckedStays
    <3>. QED BY <3>3, <3>4, <3>5, <3>6
  <2>4. CASE append.pc = "body" /\ file' = file
    <3>1. sound' = (IF sound = NoTear THEN Len(acked) ELSE sound)
      BY <1>6, <2>4 DEF WriteFails
    <3>2. Types' /\ Places'
      BY <2>1, <2>4, <3>1 DEF Types, Places
    <3>3. file[Len(file)] = Header /\ Len(file) \in 1..Len(file)
      BY <2>4 DEF AppendFollows, Places, Types
    <3>4. AppendFollows' /\ Linked'
      BY <2>1, <2>4, <3>3 DEF AppendFollows, Linked, LastHash
    <3>5. SoundWhole'
      BY <2>1, <3>1, <3>2 DEF SoundWhole, Types, Places
    <3>6. AckedKept'
      BY <2>1, <2>4, <3>1, AckedStays DEF Types
    <3>. QED BY <3>2, <3>4, <3>5, <3>6
  <2>. QED BY <1>6, <2>2, <2>3, <2>4 DEF WriteFails
<1>7. CASE Kill
  <2>1. /\ up' = FALSE /\ chain' = NoChain /\ append' = AtRest /\ UNCHANGED <<file, acked, lives, sound>>
    BY <1>7 DEF Kill
  <2>2. Types' /\ Places'
    BY <2>1 DEF Types, Places
  <2>3. AppendFollows'
    BY <2>1 DEF AppendFollows
  <2>4. Linked' /\ SoundWhole' /\ AckedKept'
    BY <2>1 DEF Linked, LastHash, SoundWhole, AckedKept
  <2>. QED BY <2>2, <2>3, <2>4
<1>8. CASE UNCHANGED vars
  BY <1>8 DEF vars, Types, Places, AppendFollows, Linked, LastHash, SoundWhole, AckedKept
<1>. QED BY <1>1, <1>2, <1>3, <1>4, <1>5, <1>6, <1>7, <1>8 DEF Next, Quiet

LEMMA InvariantHolds == Spec => []IInv
<1>1. Init => IInv
  <2>. SUFFICES ASSUME Init PROVE IInv
    OBVIOUS
  <2>1. file = << >> /\ acked = << >> /\ append.pc = "none" /\ Len(file) = 0 /\ Len(acked) = 0
    BY DEF Init, AtRest
  <2>2. Types /\ Places
    <3>1. file \in Seq(Piece) /\ acked \in Seq(Entry)
      BY <2>1
    <3>2. MaxRecords \in Nat /\ sound = NoTear /\ NoTear \in 0..NoTear
      BY FileAssumption DEF Init, NoTear
    <3>3. Types
      BY <3>1, <3>2 DEF Init, Types
    <3>. QED BY <2>1, <3>2, <3>3 DEF Places
  <2>3. AppendFollows
    BY <2>1 DEF Init, AppendFollows
  <2>4. Linked /\ SoundWhole /\ AckedKept
    BY <2>1 DEF Linked, SoundWhole, AckedKept
  <2>. QED BY <2>2, <2>3, <2>4 DEF IInv
<1>. QED BY <1>1, Inductive, PTL DEF Spec
-----------------------------------------------------------------------------
(* What it implies.                                                          *)

\* Every state of the file, of the append and of the process is well typed.
THEOREM TypeCorrect == Spec => []TypeOK
<1>1. IInv => TypeOK
  BY DEF IInv, Types, TypeOK, Piece
<1>. QED BY <1>1, InvariantHolds, PTL

\* What a reader of the partition gets is one chain from GENESIS, numbered from
\* one, whatever was killed, failed or restarted.
THEOREM ReadsOneChain == Spec => []ChainLinked
<1>1. IInv => ChainLinked
  <2>. SUFFICES ASSUME IInv, NEW i \in DOMAIN Readable
       PROVE /\ Readable[i].seq = i
             /\ Readable[i].prev = IF i = 1 THEN << >> ELSE Hash(Readable[i - 1])
    BY DEF ChainLinked
  <2>1. /\ Readable \in Seq(Entry) /\ Reaches(file, Len(Readable))
        /\ \A j \in 1..Len(Readable) : Readable[j] = file[j]
    BY ReadableReaches DEF IInv, ReadsAll
  <2>2. /\ i \in 1..Len(file) /\ i \in 1..Len(Readable)
        /\ \A j \in 1..i : file[j] \in Entry /\ Readable[j] = file[j]
    BY <2>1 DEF Reaches
  <2>3. file[i].seq = i /\ file[i].prev = LastHash(i - 1)
    BY <2>2 DEF IInv, Linked
  <2>. QED BY <2>2, <2>3 DEF LastHash
<1>. QED BY <1>1, InvariantHolds, PTL

\* Every record returned before a write failed half way is read back where it
\* was written.
THEOREM ReturnedIsReadable == Spec => []AckedReadable
<1>1. IInv => AckedReadable
  <2>. SUFFICES ASSUME IInv, NEW k \in DOMAIN acked, k <= sound
       PROVE acked[k].seq \in DOMAIN Readable /\ Readable[acked[k].seq] = acked[k]
    BY DEF AckedReadable
  <2>1. /\ Readable \in Seq(Entry) /\ Reaches(file, Len(Readable))
        /\ \A j \in 1..Len(Readable) : Readable[j] = file[j]
    BY ReadableReaches DEF IInv, ReadsAll
  <2>2. /\ acked[k].seq \in 1..Len(file) /\ file[acked[k].seq] = acked[k]
        /\ \A j \in 1..acked[k].seq : file[j] \in Entry
    BY DEF IInv, AckedKept, Types
  <2>3. acked[k].seq <= Len(Readable)
    BY <2>1, <2>2 DEF Reaches
  <2>. QED BY <2>1, <2>2, <2>3
<1>. QED BY <1>1, InvariantHolds, PTL

\* No step shortens what a reader gets, or changes a record of it: the file is
\* opened for appending, and a broken write leaves its bytes behind the rest.
THEOREM ReadersNeverLose == Spec => HistoryOnlyGrows
<1>. DEFINE Grows == /\ Len(Readable) <= Len(Readable')
                     /\ \A i \in DOMAIN Readable : Readable'[i] = Readable[i]
<1>1. IInv => ReadsAll
  BY ReadableReaches DEF IInv
<1>2. IInv /\ IInv' /\ ReadsAll /\ ReadsAll' /\ [Next]_vars => [Grows]_vars
  <2>. SUFFICES ASSUME IInv, IInv', ReadsAll, ReadsAll', [Next]_vars PROVE Grows
    BY DEF vars
  <2>1. /\ Len(file) <= Len(file')
        /\ \A i \in 1..Len(file) : file[i] \in Entry => file'[i] = file[i]
    <3>1. file \in Seq(Piece) /\ Header \notin Entry
      BY FileAssumption DEF IInv, Types
    <3>2. CASE WriteLength
      BY <3>1, <3>2 DEF WriteLength, Piece
    <3>3. CASE WriteBody
      BY <3>1, <3>3 DEF WriteBody, IInv, AppendFollows
    <3>4. CASE WriteFails
      BY <3>1, <3>4 DEF WriteFails, Piece
    <3>5. CASE UNCHANGED file
      BY <3>1, <3>5
    <3>. QED BY <3>2, <3>3, <3>4, <3>5 DEF Next, Quiet, vars, Start, BeginAppend, ReturnRecord, Kill
  <2>2. /\ Len(Readable) <= Len(Readable')
        /\ \A i \in 1..Len(Readable) : file'[i] = file[i]
    <3>1. file \in Seq(Piece) /\ file' \in Seq(Piece)
      BY DEF IInv, Types
    <3>2. \A i \in 1..Len(Readable) : file'[i] = file[i]
      BY <2>1 DEF Reaches, ReadsAll
    <3>. QED BY <2>1, <3>1, <3>2, ReachesFurther DEF ReadsAll
  <2>. QED BY <2>2 DEF ReadsAll
<1>. QED BY <1>1, <1>2, InvariantHolds, PTL DEF Spec, HistoryOnlyGrows
=============================================================================
