------------------------------- MODULE Codec -------------------------------
(***************************************************************************)
(* The two forms in which a vault leaves the device as text: the recovery  *)
(* code that a user writes down and types in again (recovery.ts), and the  *)
(* armored snapshot that goes through mail and notes (canonical.ts,        *)
(* framing.ts, armor.ts).  The bit layouts are the code's, on a key of 16  *)
(* bits in 4 + 1 characters, which leaves 4 bits of the body spare as 256  *)
(* bits in 52 + 4 do.                                                      *)
(***************************************************************************)
EXTENDS Integers, Sequences, SequencesExt

CONSTANTS
  Keys,         \* data keys
  CheckOf,      \* SHA-256 of a key, cut to one character
  Snapshots,    \* tasks, by id: what they say, and of a later field
  Absent,       \* a key that a row does not have
  Unread,       \* what cannot be read
  MaxSlips      \* bound on what happens to a text on its way

VARIABLES
  key, paper,       \* the data key, and the code as the user's sheet has it
  snapshot, text,   \* the tasks, and the armored text as it arrives
  slips, hurt       \* what happened on the way; whether it changed the content

codecVars == <<key, paper, snapshot, text, slips, hurt>>

\* The numbers that a key, a character and a byte of a row stand for.
Number == 0 .. 65535
Digit == 0 .. 31
Byte == 0 .. 255

\* What a task of a snapshot says, in a byte each; 255 stands for Absent.
Says == [says : Byte, later : (Byte \ {255}) \union {Absent}]

ASSUME CodecAssumption ==
  /\ Keys \subseteq Number /\ CheckOf \in [Number -> Digit]
  /\ \A s \in Snapshots : /\ DOMAIN s \subseteq Byte /\ s \in [DOMAIN s -> Says]
                          /\ 3 * Cardinality(DOMAIN s) \in Byte
  /\ Absent \notin Byte /\ Unread \notin Keys

\* What reading keeps of a text in which these characters mean nothing.
Without(s, skipped) ==
  LET kept[i \in 0 .. Len(s)] ==
        IF i = 0 THEN <<>>
        ELSE IF s[i] \in skipped THEN kept[i - 1] ELSE Append(kept[i - 1], s[i])
  IN kept[Len(s)]

-----------------------------------------------------------------------------
(* The recovery code.                                                      *)

BodyChars == 4
CheckChars == 1

\* A character by the value it stands for and how it is written: a capital, a
\* small letter, or for 0 and 1 the letter O, I or L that looks like it.
\* Value 32 is U, which stands for nothing; a dash is a value of its own.
Forms == {"capital", "small", "twin"}
Dash == [value |-> 33, form |-> "capital"]
Dashes == [value : {33}, form : Forms]
Capital(v) == [value |-> v, form |-> "capital"]

\* toBase32: five bits at a time, the last ones filled up with zeros.
ToBase32(k) == [i \in 1 .. BodyChars |-> ((k * 16) \div (32 ^ (BodyChars - i))) % 32]

CodeOf(k) == Append(ToBase32(k), CheckOf[k])

\* formatRecoveryCode, grouped in fours.
Printed(k) ==
  LET raw == [i \in 1 .. BodyChars + CheckChars |-> Capital(CodeOf(k)[i])]
  IN SubSeq(raw, 1, 4) \o <<Dash>> \o SubSeq(raw, 5, 5)

\* toUpperCase, and the separators dropped.
Upper(c) == IF c.form = "small" THEN Capital(c.value) ELSE c

Clean(p) ==
  LET kept == Without(p, Dashes)
  IN [i \in DOMAIN kept |-> Upper(kept[i])]

Value(c) == [i \in DOMAIN c |-> c[i].value]

\* The key that the body's first 16 bits spell, and the bits left over.
Body(v) == v[1] * 32768 + v[2] * 1024 + v[3] * 32 + v[4]

\* Faulty variant of ParseCode: any spare bits will do.
ParseCodeLoose(p) ==
  LET c == Clean(p)
      k == Body(Value(c)) \div 16
  IN IF /\ Len(c) = BodyChars + CheckChars
        /\ \A i \in DOMAIN c : c[i].value < 32
        /\ c[5] = Capital(CheckOf[k])
     THEN k ELSE Unread

\* parseRecoveryCode.  The check character is compared as it is written.
ParseCode(p) ==
  LET c == Clean(p)
      k == Body(Value(c)) \div 16
  IN IF /\ Len(c) = BodyChars + CheckChars
        /\ \A i \in DOMAIN c : c[i].value < 32
        /\ Body(Value(c)) % 16 = 0
        /\ c[5] = Capital(CheckOf[k])
     THEN k ELSE Unread

-----------------------------------------------------------------------------
(* The snapshot.                                                           *)

\* canonicalNdjson: a row per task, sorted by id, each key always written.
RowsOf(s) ==
  LET ids == CHOOSE q \in SetToSeqs(DOMAIN s) :
               \A i, j \in DOMAIN q : i < j => q[i] < q[j]
  IN [i \in DOMAIN ids |-> <<ids[i], s[ids[i]].says, s[ids[i]].later>>]

\* A row as bytes; an older release wrote none for the later key.
Unset == 0
Payload(s) == FlattenSeq([i \in DOMAIN RowsOf(s) |->
                            IF RowsOf(s)[i][3] = Absent
                            THEN <<RowsOf(s)[i][1], RowsOf(s)[i][2], 255>>
                            ELSE RowsOf(s)[i]])

\* parseNdjson: an absent later key reads as never set; a row that is cut
\* short lacks a key of the first version, which is an error.
ParseRows(bytes) ==
  IF Len(bytes) % 3 # 0 THEN Unread
  ELSE LET row(i) == SubSeq(bytes, 3 * i - 2, 3 * i)
           n == Len(bytes) \div 3
       IN [id \in {row(i)[1] : i \in 1 .. n} |->
             LET i == CHOOSE j \in 1 .. n : row(j)[1] = id
             IN [says |-> row(i)[2],
                 later |-> IF row(i)[3] = 255 THEN Unset ELSE row(i)[3]]]

PadBlock == 5

\* frame and unframe: the length, the payload, zeros up to a whole block.
Frame(payload) ==
  LET filled == 1 + Len(payload)
      total == ((filled + PadBlock - 1) \div PadBlock) * PadBlock
  IN <<Len(payload)>> \o payload \o [i \in 1 .. total - filled |-> 0]

Unframe(inner) == IF inner = <<>> \/ inner[1] + 1 > Len(inner) THEN Unread
                  ELSE SubSeq(inner, 2, inner[1] + 1)

\* The symbols beyond the alphabet: white space, and anything else.
Space == 64
Junk == 65

Nth(s, i) == IF i \in DOMAIN s THEN s[i] ELSE 0

\* Symbol j holds the six bits from bit 6 * (j - 1) on; no padding.
Base64UrlEncode(bytes) ==
  [j \in 1 .. (8 * Len(bytes) + 5) \div 6 |->
     LET bit == 6 * (j - 1)
         i == bit \div 8 + 1
     IN ((Nth(bytes, i) * 256 + Nth(bytes, i + 1)) \div (2 ^ (10 - (bit % 8)))) % 64]

\* White space is skipped, another symbol is an error, as is a lone last one.
Base64UrlDecode(symbols) ==
  LET clean == Without(symbols, {Space})
  IN IF Len(clean) % 4 = 1 \/ Junk \in {clean[i] : i \in DOMAIN clean} THEN Unread
     ELSE [i \in 1 .. (6 * Len(clean)) \div 8 |->
             LET bit == 8 * (i - 1)
                 k == bit \div 6 + 1
             IN ((Nth(clean, k) * 4096 + Nth(clean, k + 1) * 64 + Nth(clean, k + 2))
                   \div (2 ^ (10 - (bit % 6)))) % 256]

\* armor: the lines after the label, wrapped.
WrapColumns == 8
Armor(blob) ==
  LET body == Base64UrlEncode(blob)
  IN FlattenSeq([i \in DOMAIN body |->
       IF i % WrapColumns = 0 THEN <<body[i], Space>> ELSE <<body[i]>>])

\* The seal lets through exactly the blob it closed.
ReadText(t) ==
  LET blob == Base64UrlDecode(t)
  IN IF blob # Frame(Payload(snapshot)) THEN Unread ELSE ParseRows(Unframe(blob))

-----------------------------------------------------------------------------
CodecInit ==
  /\ key \in Keys /\ paper = Printed(key)
  /\ snapshot \in Snapshots /\ text = Armor(Frame(Payload(snapshot)))
  /\ slips = 0 /\ hurt = FALSE

Slip(changed) == /\ slips < MaxSlips /\ slips' = slips + 1
                 /\ hurt' = (hurt \/ changed)
                 /\ UNCHANGED <<key, snapshot>>

\* The user writes or types a character in another form, or a wrong one.
WriteOtherForm ==
  /\ Slip(FALSE) /\ UNCHANGED text
  /\ \E i \in DOMAIN paper, f \in Forms :
       /\ f = "twin" => paper[i].value \in {0, 1}
       /\ f = "small" => paper[i].value \in 10 .. 31
       /\ paper' = [paper EXCEPT ![i].form = f]

WriteOther ==
  /\ Slip(TRUE) /\ UNCHANGED text
  /\ \E i \in DOMAIN paper, v \in 0 .. 33 :
       v # paper[i].value /\ paper' = [paper EXCEPT ![i] = Capital(v)]

SwapTwo ==
  /\ Slip(TRUE) /\ UNCHANGED text
  /\ \E i \in 1 .. Len(paper) - 1 :
       paper' = [paper EXCEPT ![i] = paper[i + 1], ![i + 1] = paper[i]]

Regroup ==
  /\ Slip(FALSE) /\ UNCHANGED text
  /\ \E i \in DOMAIN paper : paper' = InsertAt(paper, i, Dash)

LeaveOut ==
  /\ Slip(TRUE) /\ UNCHANGED text
  /\ \E i \in DOMAIN paper : paper' = RemoveAt(paper, i)

\* Mail wraps the text anew, cuts it, or replaces a symbol.
Rewrap ==
  /\ Slip(FALSE) /\ UNCHANGED paper
  /\ \E i \in DOMAIN text : text' = InsertAt(text, i, Space)

CutShort ==
  /\ text # <<>> /\ text' = Front(text)
  /\ Slip(Last(text) # Space) /\ UNCHANGED paper

Replace ==
  /\ Slip(TRUE) /\ UNCHANGED paper
  /\ \E i \in DOMAIN text, c \in {0, Junk} :
       text[i] # Space /\ c # text[i] /\ text' = [text EXCEPT ![i] = c]

CodecNext == \/ WriteOtherForm \/ WriteOther \/ SwapTwo \/ Regroup \/ LeaveOut
             \/ Rewrap \/ CutShort \/ Replace

CodecSpec == CodecInit /\ [][CodecNext]_codecVars

-----------------------------------------------------------------------------
NeverSet(s) == [id \in DOMAIN s |->
                  [s[id] EXCEPT !.later = IF @ = Absent THEN Unset ELSE @]]

(***************************************************************************)
(* What is read is what was written, or nothing.  A code has one spelling: *)
(* if it is taken at all, its characters are those of the key it yields,   *)
(* so that no typo passes on spare bits (recovery.ts:126-133); and it is   *)
(* taken however it is grouped and in whichever case it is written, with   *)
(* letters for digits in its body.  A snapshot comes back as it was, with  *)
(* the later keys of an older release unset (canonical.ts:18-21), however  *)
(* its lines were wrapped on the way.                                      *)
(***************************************************************************)
NothingMisread ==
  LET code == ParseCode(paper)
      tasks == ReadText(text)
  IN /\ code # Unread => Value(Clean(paper)) = CodeOf(code)
     /\ ~hurt /\ Last(Clean(paper)).form # "twin" => code = key
     /\ tasks # Unread => tasks = NeverSet(snapshot)
     /\ ~hurt => tasks = NeverSet(snapshot)

(***************************************************************************)
(* What recovery.ts:90-91 says of reading: "case is insignificant; I/L     *)
(* become 1 and O becomes 0".                                              *)
(***************************************************************************)
FormsDoNotMatter == ~hurt => ParseCode(paper) = key
=============================================================================
