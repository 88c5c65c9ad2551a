---------------------------- MODULE LedgerFile ----------------------------
(***************************************************************************)
(* One partition file of the command ledger, crates/av-command/src/        *)
(* ledger.rs: a chain of length-prefixed frames, appended under the        *)
(* ledger's lock by one process at a time, read back by the next.          *)
(*                                                                         *)
(* CommandAuthority takes an append as one step that happens or does not.  *)
(* This module opens that step: the length and the body are two writes,    *)
(* the process may be killed between them, and a write may fail half way   *)
(* (a full disk) while the process lives on.  A hash stands for everything *)
(* it covers: the hash of a record is the sequence of the payloads up to   *)
(* and including its own.  What write_all accepted is taken to be on file. *)
(***************************************************************************)
EXTENDS Naturals, Sequences

CONSTANTS
  Payloads,     \* what a record is about: its command, transition and decision
  Header,       \* on file: a whole length prefix without its whole body
  Prefix,       \* on file: one to three bytes of a length prefix
  NoChain,      \* no chain state is cached for the partition
  MaxRecords,   \* bound: frames on file
  MaxLives      \* bound: process lifetimes

\* A LedgerRecord: prev is prev_hash, GENESIS being the empty sequence.
Entry == [seq : Nat, prev : Seq(Payloads), payload : Payloads]
Hash(r) == Append(r.prev, r.payload)

ASSUME FileAssumption ==
  /\ Header \notin Entry /\ Prefix \notin Entry /\ Header # Prefix
  /\ NoChain \notin [next_seq : Nat, last_hash : Seq(Payloads)]
  /\ MaxRecords \in Nat /\ MaxLives \in Nat

VARIABLES
  file,     \* the pieces on file: entries, or what a broken write left of one
  chain,    \* the cached ChainState, or NoChain
  append,   \* where the append that holds the lock is, and its record
  acked,    \* the records append has returned, in order
  up,       \* is a process serving?
  lives,    \* process lifetimes begun
  sound     \* history: records acked before a failed write left bytes behind

vars == <<file, chain, append, acked, up, lives, sound>>

ChainState == [next_seq : Nat, last_hash : Seq(Payloads)]
Genesis == [next_seq |-> 1, last_hash |-> << >>]
AtRest == [pc |-> "none"]
NoTear == MaxRecords + 1   \* sound, until a write fails half way

\* What a reader of read_frame gets: the records up to the first broken piece.
\* A frame is as good as lost once bytes before it are missing: its reader is
\* out of step and fails.
Torn == {i \in DOMAIN file : file[i] \in {Header, Prefix}}
Readable ==
  IF Torn = {} THEN file
  ELSE SubSeq(file, 1, (CHOOSE i \in Torn : \A j \in Torn : i <= j) - 1)

\* Ok(None) at a frame boundary, and also inside the length prefix of the last
\* frame: read_exact reports both the same way.
ReadsClean ==
  \/ Torn = {}
  \/ Torn = {Len(file)} /\ file[Len(file)] = Prefix

\* recover_chain_state, when the file reads clean.
RecoverFresh == Genesis   \* bug: a new chain in the old file
Recover ==
  IF Readable = << >> THEN Genesis
  ELSE LET last == Readable[Len(Readable)]
       IN [next_seq |-> last.seq + 1, last_hash |-> Hash(last)]
-----------------------------------------------------------------------------
Init ==
  /\ file = << >>
  /\ chain = NoChain
  /\ append = AtRest
  /\ acked = << >>
  /\ up = FALSE
  /\ lives = 0
  /\ sound = NoTear

\* The service is constructed: its scans read every frame, or it does not start.
Start ==
  /\ ~up /\ lives < MaxLives
  /\ ReadsClean
  /\ up' = TRUE /\ lives' = lives + 1
  /\ UNCHANGED <<file, chain, append, acked, sound>>

\* append takes the lock and the chain state, cached or recovered.
BeginAppendUnread ==   \* bug: a cache miss does not read the file
  /\ up /\ append = AtRest /\ Len(file) < MaxRecords
  /\ LET state == IF chain = NoChain THEN RecoverFresh ELSE chain
     IN /\ chain' = state
        /\ \E p \in Payloads :
             append' = [pc |-> "length",
                        record |-> [seq |-> state.next_seq, prev |-> state.last_hash, payload |-> p]]
  /\ UNCHANGED <<file, acked, up, lives, sound>>

BeginAppend ==
  /\ up /\ append = AtRest /\ Len(file) < MaxRecords
  /\ chain = NoChain => ReadsClean
  /\ LET state == IF chain = NoChain THEN Recover ELSE chain
     IN /\ chain' = state
        /\ \E p \in Payloads :
             append' = [pc |-> "length",
                        record |-> [seq |-> state.next_seq, prev |-> state.last_hash, payload |-> p]]
  /\ UNCHANGED <<file, acked, up, lives, sound>>

WriteLengthTruncating ==   \* bug: the file is opened for writing, not appending
  /\ append.pc = "length"
  /\ file' = << Header >>
  /\ append' = [append EXCEPT !.pc = "body"]
  /\ UNCHANGED <<chain, acked, up, lives, sound>>

WriteLength ==
  /\ append.pc = "length"
  /\ file' = Append(file, Header)
  /\ append' = [append EXCEPT !.pc = "body"]
  /\ UNCHANGED <<chain, acked, up, lives, sound>>

WriteBodyEarlyReturn ==   \* bug: the answer goes out before the body is written
  /\ append.pc = "body"
  /\ append' = [append EXCEPT !.pc = "return"]
  /\ UNCHANGED <<file, chain, acked, up, lives, sound>>

WriteBody ==
  /\ append.pc = "body"
  /\ file' = [file EXCEPT ![Len(file)] = append.record]
  /\ append' = [append EXCEPT !.pc = "return"]
  /\ UNCHANGED <<chain, acked, up, lives, sound>>

\* The chain state moves on and the record is returned: both in memory.
ReturnRecord ==
  /\ append.pc = "return"
  /\ chain' = [next_seq |-> append.record.seq + 1, last_hash |-> Hash(append.record)]
  /\ acked' = Append(acked, append.record)
  /\ append' = AtRest
  /\ UNCHANGED <<file, up, lives, sound>>

\* A write fails after some of its bytes: append returns the error, the cached
\* chain state stays, and so do the bytes.
WriteFailsAnswered ==   \* bug: the error is swallowed and what is on file is returned
  /\ append.pc = "body"
  /\ acked' = Append(acked, file[Len(file)])
  /\ append' = AtRest
  /\ UNCHANGED <<file, chain, up, lives, sound>>

WriteFails ==
  /\ \/ append.pc = "length" /\ file' \in {file, Append(file, Prefix)}
     \/ append.pc = "body" /\ file' = file
  /\ sound' = IF append.pc = "body" \/ file' # file
              THEN (IF sound = NoTear THEN Len(acked) ELSE sound)
              ELSE sound
  /\ append' = AtRest
  /\ UNCHANGED <<chain, acked, up, lives>>

Kill ==
  /\ up
  /\ up' = FALSE /\ chain' = NoChain /\ append' = AtRest
  /\ UNCHANGED <<file, acked, lives, sound>>

\* Nobody appends, or the service cannot start again.
Quiet == append = AtRest /\ UNCHANGED vars

Next ==
  \/ Start \/ BeginAppend \/ WriteLength \/ WriteBody \/ ReturnRecord
  \/ WriteFails \/ Kill \/ Quiet

Spec == Init /\ [][Next]_vars
-----------------------------------------------------------------------------
(* Properties.                                                             *)

TypeOK ==
  /\ file \in Seq(Entry \cup {Header, Prefix})
  /\ chain \in ChainState \cup {NoChain}
  /\ append = AtRest \/ append \in [pc : {"length", "body", "return"}, record : Entry]
  /\ acked \in Seq(Entry)
  /\ up \in BOOLEAN /\ lives \in Nat /\ sound \in 0..NoTear

\* What can be read back is one unbroken chain from GENESIS, across restarts:
\* every record's number and prev_hash follow the record before it (verify).
ChainLinked ==
  \A i \in DOMAIN Readable :
    /\ Readable[i].seq = i
    /\ Readable[i].prev = IF i = 1 THEN << >> ELSE Hash(Readable[i - 1])

\* Every record append returned before a write failed half way is found where
\* it was written, whatever was killed or failed since.
AckedReadable ==
  \A k \in DOMAIN acked : k <= sound =>
    acked[k].seq \in DOMAIN Readable /\ Readable[acked[k].seq] = acked[k]

\* A later reader finds everything an earlier one found, in the same place.
HistoryOnlyGrows ==
  [][/\ Len(Readable) <= Len(Readable')
     /\ \A i \in DOMAIN Readable : Readable'[i] = Readable[i]]_vars
-----------------------------------------------------------------------------
(* What the module documentation says of every truncated tail, and the code *)
(* does not do when the process lives on, or only a length prefix is torn   *)
(* (README, known divergences).                                             *)

\* ledger.rs: no append goes behind a truncated tail, whoever left it.
TornTailRefused == \A i \in Torn : i = Len(file)
=============================================================================
