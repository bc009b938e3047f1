-------------------------- MODULE FirmwareArtifacts --------------------------
(***************************************************************************)
(* The way of a program from the compiler into the simulated AVR: Intel    *)
(* HEX records are parsed and checked (browser-toolchain/src/intelHex.ts), *)
(* the artifact is hashed, and the runtime's adapter checks hash and bytes,*)
(* parses the records once more with a parser of its own and copies them   *)
(* into words of flash (avr-runtime/src/intelHex.ts and adapter.ts).       *)
(*                                                                         *)
(* A text is a sequence of records; its hash is the text itself.           *)
(***************************************************************************)
EXTENDS Naturals, Sequences, FiniteSets, SequencesExt

CONSTANTS
    Records,        \* records that a compiler, or somebody's file, contains
    MaxRecords,
    Paragraph, Page, \* bytes that one step of an extended address stands for (16 and 65536)
    None,
    FlashBytes      \* the target's flash, even

VARIABLES
    text,           \* records emitted so far, by the compiler
    artifact,       \* what createIntelHexArtifact made of them, then what became of it
    load,           \* a loading in progress: it has passed the hash
    avr             \* the adapter: program, and the hash that it says it has loaded

artifactVars == <<text, artifact, load, avr>>
Blank == 0
Words == 0..(FlashBytes \div 2 - 1)

-----------------------------------------------------------------------------
Start == [ok |-> TRUE, ended |-> FALSE, base |-> 0, segments |-> <<>>, occupied |-> {}]
Rejected(s) == [s EXCEPT !.ok = FALSE]
Based(s, r) == [s EXCEPT !.base = r.upper * (IF r.kind = "segment" THEN Paragraph ELSE Page)]

\* One record: nothing may follow the end, the checksum and the shape must be
\* right, and data must be inside the address space and must not overlap.
ParseRecord_Overlaps(s, r, limit) ==
    CASE ~s.ok -> s
      [] s.ok /\ (s.ended \/ ~r.wellFormed) -> Rejected(s)
      [] s.ok /\ ~s.ended /\ r.wellFormed /\ r.kind = "eof" -> [s EXCEPT !.ended = TRUE]
      [] s.ok /\ ~s.ended /\ r.wellFormed /\ r.kind \in {"segment", "linear"} -> Based(s, r)
      [] s.ok /\ ~s.ended /\ r.wellFormed /\ r.kind = "data" ->
            IF s.base + r.address + Len(r.data) > limit THEN Rejected(s)
            ELSE [s EXCEPT !.segments = Append(@, [address |-> s.base + r.address, data |-> r.data])]
      [] OTHER -> s
ParseRecord(s, r, limit) ==
    LET at == s.base + r.address
        taken == at..(at + Len(r.data) - 1)
    IN  CASE ~s.ok -> s
          [] s.ok /\ (s.ended \/ ~r.wellFormed) -> Rejected(s)
          [] s.ok /\ ~s.ended /\ r.wellFormed /\ r.kind = "eof" -> [s EXCEPT !.ended = TRUE]
          [] s.ok /\ ~s.ended /\ r.wellFormed /\ r.kind \in {"segment", "linear"} -> Based(s, r)
          [] s.ok /\ ~s.ended /\ r.wellFormed /\ r.kind = "data" ->
                IF at + Len(r.data) > limit \/ taken \cap s.occupied # {} THEN Rejected(s)
                ELSE [s EXCEPT !.occupied = @ \cup taken, !.segments = Append(@, [address |-> at, data |-> r.data])]
          [] OTHER -> s

ParseIntelHex(records, limit) == FoldLeft(LAMBDA s, r : ParseRecord(s, r, limit), Start, records)
Valid(records, limit) == LET s == ParseIntelHex(records, limit) IN s.ok /\ s.ended

\* The bytes of a segment go into the low and high halves of the words.
Fill(program, segment) ==
    [w \in Words |-> [half \in {0, 1} |->
        LET offset == 2 * w + half - segment.address
        IN  IF 2 * w + half >= segment.address /\ offset < Len(segment.data) THEN segment.data[offset + 1]
            ELSE program[w][half]]]
ImageToProgram(segments) == FoldLeft(Fill, [w \in Words |-> [half \in {0, 1} |-> Blank]], segments)

-----------------------------------------------------------------------------
ArtifactsInit ==
    /\ text = <<>> /\ artifact = None /\ load = None
    /\ avr = [program |-> None, sha |-> None]

Emit(r) ==
    /\ artifact = None /\ Len(text) < MaxRecords
    /\ text' = Append(text, r)
    /\ UNCHANGED <<artifact, load, avr>>

\* A compiler's output becomes an artifact only if it is valid for the target.
CreateIntelHexArtifact ==
    /\ artifact = None /\ Valid(text, FlashBytes)
    /\ artifact' = [text |-> text, bytes |-> text, sha |-> text]
    /\ text' = <<>>
    /\ UNCHANGED <<load, avr>>

\* An artifact crosses a worker, a download or an upload, and a part of it
\* changes, or another file takes its place.
Altered(part, records) ==
    /\ artifact # None /\ load = None
    /\ artifact.text = artifact.sha /\ artifact.bytes = artifact.sha
    /\ artifact' = CASE part = "text" -> [artifact EXCEPT !.text = records]
                     [] part = "bytes" -> [artifact EXCEPT !.bytes = records]
                     [] part = "all" -> [artifact EXCEPT !.text = records, !.bytes = records, !.sha = records]
    /\ UNCHANGED <<text, load, avr>>

\* loadArtifact hashes the bytes first; the check is awaited.
HashBytes ==
    /\ artifact # None /\ load = None
    /\ artifact.bytes = artifact.sha
    /\ load' = artifact
    /\ UNCHANGED <<text, artifact, avr>>

\* Text and bytes must agree and the records must be valid for this flash;
\* program, hash and processor are then replaced together, or not at all.
LoadArtifact_TrustsText ==
    /\ load # None
    /\ load' = None
    /\ IF Valid(load.text, FlashBytes)
       THEN avr' = [program |-> ImageToProgram(ParseIntelHex(load.text, FlashBytes).segments), sha |-> load.sha]
       ELSE UNCHANGED avr
    /\ UNCHANGED <<text, artifact>>
LoadArtifact ==
    /\ load # None
    /\ load' = None
    /\ IF load.text = load.bytes /\ Valid(load.text, FlashBytes)
       THEN avr' = [program |-> ImageToProgram(ParseIntelHex(load.text, FlashBytes).segments), sha |-> load.sha]
       ELSE UNCHANGED avr
    /\ UNCHANGED <<text, artifact>>

Strange == {<<r>> : r \in Records} \cup {<<r, [kind |-> "eof", wellFormed |-> TRUE, address |-> 0, data |-> <<>>, upper |-> 0]>> : r \in Records}

ArtifactsNext ==
    \/ \E r \in Records : Emit(r)
    \/ CreateIntelHexArtifact
    \/ \E part \in {"text", "bytes", "all"}, records \in Strange : Altered(part, records)
    \/ HashBytes
    \/ LoadArtifact

-----------------------------------------------------------------------------
\* Where a data record of a text puts its bytes, read off the text itself.
BaseAt(records, i) ==
    LET before == {k \in 1..(i - 1) : records[k].kind \in {"segment", "linear"}}
    IN  IF before = {} THEN 0
        ELSE LET k == CHOOSE k \in before : \A l \in before : l <= k
             IN  records[k].upper * (IF records[k].kind = "segment" THEN Paragraph ELSE Page)
Puts(records, i, a) ==
    /\ records[i].kind = "data"
    /\ a >= BaseAt(records, i) + records[i].address /\ a < BaseAt(records, i) + records[i].address + Len(records[i].data)
ByteOf(records, i, a) == records[i].data[a - BaseAt(records, i) - records[i].address + 1]

\* The program in flash is the one whose hash the adapter reports: every byte
\* that some record puts is there, put by one record only, and the rest is
\* blank; the records end with their only end record.
LoadedIsExact ==
    avr.sha # None =>
        /\ avr.sha[Len(avr.sha)].kind = "eof"
        /\ \A i \in 1..Len(avr.sha) : avr.sha[i].wellFormed /\ (i < Len(avr.sha) => avr.sha[i].kind # "eof")
        /\ \A i \in 1..Len(avr.sha) : \A a \in 0..(2 * FlashBytes) : Puts(avr.sha, i, a) => a < FlashBytes
        /\ \A a \in 0..(FlashBytes - 1) :
              LET puts == {i \in 1..Len(avr.sha) : Puts(avr.sha, i, a)} IN
              /\ Cardinality(puts) <= 1
              /\ avr.program[a \div 2][a % 2] = IF puts = {} THEN Blank ELSE ByteOf(avr.sha, CHOOSE i \in puts : TRUE, a)
=============================================================================
