-------------------------------- MODULE Wal --------------------------------
(***************************************************************************)
(* storage/wal: one segment's write-ahead log, as the words of its file,   *)
(* written by WALWriter and read by WALReader::replay, through short       *)
(* writes, process crashes, power failures and bit rot.                    *)
(*                                                                         *)
(* Simplifications:                                                        *)
(*  - A word stands for a field of the format; seq_id, op_type and doc_id  *)
(*    are one word.  A write is cut between two words.                     *)
(*  - The checksum of some words is those words: no two sequences collide. *)
(*  - A power failure leaves a prefix of the file that holds everything    *)
(*    fsync covered.                                                       *)
(*  - A word that is not a length but is read as one gives a number of the *)
(*    set Junk.                                                            *)
(***************************************************************************)
EXTENDS Naturals, Sequences

CONSTANTS
    Bodies,      \* what is appended: [doc, dim, len]
    Policies,    \* the FsyncPolicy values a writer is opened with
    Junk,        \* numbers that words which are no lengths are read as
    MaxEntries,  \* bound: appends in the file
    MaxSeq,      \* bound: appends by one writer
    MaxRot       \* bound: rotten words

ASSUME WalAssumption ==
    /\ Bodies \subseteq [doc : Nat, dim : Nat, len : Nat]
    /\ Policies \subseteq {"ALWAYS", "PERIODIC", "NEVER"}
    /\ Junk \subseteq Nat
    /\ MaxEntries \in Nat /\ MaxSeq \in Nat /\ MaxRot \in Nat

VARIABLES
    file,    \* the words in the file, as a reader of the running system sees them
    synced,  \* how many of them are known to be on the disk
    writer,  \* WALWriter: "closed", "open", or "wrote": between write and return
    policy,  \* policy_
    seq,     \* seq_counter_
    log      \* history: the appends that left something in the file

vars == <<file, synced, writer, policy, seq, log>>

-----------------------------------------------------------------------------
(* The format                                                              *)

WalSeqStart == 1

Magic == <<"magic">>
Rotten == <<"rot">>

Field(name, n) == [i \in 1 .. n |-> <<name>>]

Encode(n, body) ==
    LET covered == <<Magic, <<"head", n, body.doc>>, <<"dim", body.dim>>>>
                       \o Field("float", body.dim)
                       \o <<<<"meta_len", body.len>>>>
                       \o Field("byte", body.len)
    IN  Append(covered, <<"crc", covered>>)

\* magic, head, dim, meta_len and crc
MinEntry == 5

\* A word where a length is expected.
Length(word, junk) == IF word[1] \in {"dim", "meta_len"} THEN word[2] ELSE junk

-----------------------------------------------------------------------------
(* WALReader::replay: the offsets, ascending in the code, of the entries it *)
(* returns.  It gives up at the first bad magic or truncated entry and      *)
(* steps over an entry whose checksum does not match.                       *)

\* The word after the entry that starts at p; 0: the reader stops here.
EndOf(f, p, junk) ==
    IF p + MinEntry - 1 > Len(f) \/ f[p] # Magic THEN 0
    ELSE LET metaLen == p + 3 + Length(f[p + 2], junk)
         IN  IF metaLen > Len(f) THEN 0
             ELSE LET crc == metaLen + 1 + Length(f[metaLen], junk)
                  IN  IF crc > Len(f) THEN 0 ELSE crc + 1

\* Mutant: the checksum is not compared.
CrcIgnored(f, p, end) == TRUE

CrcMatches(f, p, end) == f[end - 1] = <<"crc", SubSeq(f, p, end - 2)>>

\* Mutant: a checksum that does not match ends the replay.
ReplayUpToDamage(f, junk) ==
    LET from[p \in 1 .. Len(f) + 1] ==
            LET end == EndOf(f, p, junk)
            IN  IF end = 0 \/ ~CrcMatches(f, p, end) THEN {} ELSE {p} \cup from[end]
    IN  from[1]

Replay(f, junk) ==
    LET from[p \in 1 .. Len(f) + 1] ==
            LET end == EndOf(f, p, junk)
            IN  IF end = 0 THEN {}
                ELSE (IF CrcMatches(f, p, end) THEN {p} ELSE {}) \cup from[end]
    IN  from[1]

-----------------------------------------------------------------------------
Init ==
    /\ file = <<>>
    /\ synced = 0
    /\ writer = "closed"
    /\ policy \in Policies
    /\ seq = WalSeqStart
    /\ log = <<>>

\* Mutant: O_TRUNC for O_APPEND.
OpenTruncated ==
    /\ writer = "closed"
    /\ writer' = "open"
    /\ policy' \in Policies
    /\ seq' = WalSeqStart
    /\ file' = <<>>
    /\ UNCHANGED <<synced, log>>

\* The constructor appends to what is there and numbers from the start again.
Open ==
    /\ writer = "closed"
    /\ writer' = "open"
    /\ policy' \in Policies
    /\ seq' = WalSeqStart
    /\ UNCHANGED <<file, synced, log>>

Written(words, k) ==
    /\ file' = file \o SubSeq(words, 1, k)
    /\ log' = IF k = 0 THEN log
              ELSE Append(log, [at |-> Len(file) + 1, words |-> words, durable |-> FALSE])
    /\ seq' = seq + 1

\* append up to the end of a write(2) that took everything ...
Write(body) ==
    /\ writer = "open"
    /\ Len(log) < MaxEntries /\ seq < WalSeqStart + MaxSeq
    /\ Written(Encode(seq, body), Len(Encode(seq, body)))
    /\ writer' = "wrote"
    /\ UNCHANGED <<synced, policy>>

\* ... or a part: append throws, the part stays, the writer goes on.
ShortWrite(body) ==
    /\ writer = "open"
    /\ Len(log) < MaxEntries /\ seq < WalSeqStart + MaxSeq
    /\ \E k \in 0 .. Len(Encode(seq, body)) - 1 : Written(Encode(seq, body), k)
    /\ UNCHANGED <<synced, writer, policy>>

\* Mutant: SYNC_ALWAYS does not sync.
ReturnUnsynced ==
    /\ writer = "wrote"
    /\ log' = [log EXCEPT ![Len(log)].durable = (policy = "ALWAYS")]
    /\ writer' = "open"
    /\ UNCHANGED <<file, synced, policy, seq>>

\* The end of append.  With SYNC_ALWAYS the entry is promised to be durable.
Return ==
    /\ writer = "wrote"
    /\ synced' = IF policy = "ALWAYS" THEN Len(file) ELSE synced
    /\ log' = [log EXCEPT ![Len(log)].durable = (policy = "ALWAYS")]
    /\ writer' = "open"
    /\ UNCHANGED <<file, policy, seq>>

PeriodicSync ==
    /\ policy = "PERIODIC"
    /\ writer # "closed"
    /\ synced' = Len(file)
    /\ UNCHANGED <<file, writer, policy, seq, log>>

\* The destructor, after its thread has stopped (module WalSync).
Close ==
    /\ writer = "open"
    /\ synced' = Len(file)
    /\ writer' = "closed"
    /\ UNCHANGED <<file, policy, seq, log>>

Crash ==
    /\ writer # "closed"
    /\ writer' = "closed"
    /\ UNCHANGED <<file, synced, policy, seq, log>>

\* What is left is a prefix of the file, and the appends that begin in it.
PowerFail ==
    /\ \E n \in synced .. Len(file), m \in 0 .. Len(log) :
           /\ \A i \in 1 .. Len(log) : i <= m <=> log[i].at <= n
           /\ file' = SubSeq(file, 1, n)
           /\ synced' = n
           /\ log' = SubSeq(log, 1, m)
    /\ writer' = "closed"
    /\ UNCHANGED <<policy, seq>>

\* The medium loses a word.
Rot ==
    /\ Len(SelectSeq(file, LAMBDA word : word = Rotten)) < MaxRot
    /\ \E i \in 1 .. synced : file' = [file EXCEPT ![i] = Rotten]
    /\ UNCHANGED <<synced, writer, policy, seq, log>>

Next ==
    \/ Open \/ Return \/ PeriodicSync \/ Close
    \/ \E body \in Bodies : Write(body) \/ ShortWrite(body)
    \/ Crash \/ PowerFail \/ Rot

Spec == Init /\ [][Next]_vars

-----------------------------------------------------------------------------
(* Properties                                                              *)

\* What is in the file of the i-th append: up to the next one, or the end.
LastWord(i) == IF i = Len(log) THEN Len(file) ELSE log[i + 1].at - 1

Complete(i) == log[i].at + Len(log[i].words) - 1 = LastWord(i)

Intact(i) == SubSeq(file, log[i].at, LastWord(i)) = log[i].words

\* The words that say where the entry ends are as they were written.
Framed(i) ==
    /\ Complete(i)
    /\ \A k \in 1 .. Len(log[i].words) :
           log[i].words[k][1] \in {"magic", "dim", "meta_len"} =>
               file[log[i].at + k - 1] = log[i].words[k]

\* Nothing before the i-th append can lead the reader astray.
Reachable(i) == \A j \in 1 .. i : Framed(j)

\* Type invariant: the appends lie in the file one after the other, each with
\* at least one word, and no more is synced than is there.
TypeOK ==
    /\ synced \in 0 .. Len(file)
    /\ writer \in {"closed", "open", "wrote"}
    /\ policy \in Policies
    /\ seq \in WalSeqStart .. WalSeqStart + MaxSeq
    /\ file # <<>> <=> log # <<>>
    /\ \A i \in 1 .. Len(log) :
           /\ log[i].at \in 1 .. LastWord(i)
           /\ LastWord(i) < log[i].at + Len(log[i].words)

\* Replay returns nothing that was not appended whole, at the place where it was
\* appended, whatever torn and rotten words the file holds and however they are
\* read.
NoFabrication ==
    \A junk \in Junk : \A p \in Replay(file, junk) :
        \E i \in 1 .. Len(log) : log[i].at = p /\ Intact(i)

\* Damage to what an entry says costs that entry and no other: before the first
\* torn entry or damaged length, replay returns exactly the intact entries.
SkipsOnlyDamaged ==
    \A junk \in Junk : \A i \in 1 .. Len(log) :
        Reachable(i) => (log[i].at \in Replay(file, junk) <=> Intact(i))

\* With SYNC_ALWAYS, an append that returned is replayed after a power failure
\* now or later, if no append before it was cut short.
SurvivesPowerLoss ==
    \A n \in synced .. Len(file), junk \in Junk : \A i \in 1 .. Len(log) :
        log[i].durable /\ Reachable(i) /\ Intact(i) => log[i].at \in Replay(SubSeq(file, 1, n), junk)
=============================================================================
