------------------------------ MODULE WireFormat ------------------------------
(***************************************************************************)
(* Byte strings, as the serializers and the Ledger client of the wallet    *)
(* build them.  What is in a field does not matter here, which bytes of    *)
(* which field come after which does: a byte string is a sequence of       *)
(* pieces, and a piece is a range of the bytes of one field.  A field may  *)
(* occur several times (the points of a schedule), so it has a number, and *)
(* the length of a field that is written in front of it is a piece too.    *)
(***************************************************************************)
EXTENDS Integers, Sequences, SequencesExt

Piece(of, field, no, from, to) ==
  [of |-> of, field |-> field, no |-> no, from |-> from, to |-> to]

(* The size bytes of the no-th occurrence of field; no piece when there are none. *)
Nth(field, no, size) ==
  IF size = 0 THEN <<>> ELSE <<Piece("data", field, no, 0, size)>>

Field(field, size) == Nth(field, 0, size)

(* The length, or the number of members, of a field, in width bytes. *)
LengthOfNth(field, no, width) == <<Piece("length", field, no, 0, width)>>

LengthOf(field, width) == LengthOfNth(field, 0, width)

(* By halves: a fold would be as deep as the sequence is long. *)
Concat(buffers) ==
  LET part[i \in Nat, n \in Nat] ==
        IF n = 0 THEN <<>> ELSE IF n = 1 THEN buffers[i]
        ELSE part[i, n \div 2] \o part[i + n \div 2, n - n \div 2]
  IN  part[1, Len(buffers)]

Size(buffer) == FoldLeft(LAMBDA sum, p : sum + p.to - p.from, 0, buffer)

(* Pieces that continue each other, put together. *)
Joined(buffer) ==
  LET Continues(p, q) ==
        p.of = q.of /\ p.field = q.field /\ p.no = q.no /\ p.to = q.from
      Starts(i) == i = 1 \/ ~Continues(buffer[i - 1], buffer[i])
      starts == SelectSeq([i \in DOMAIN buffer |-> i], Starts)
      end(k) == IF k = Len(starts) THEN Len(buffer) ELSE starts[k + 1] - 1
  IN  [k \in DOMAIN starts |-> [buffer[starts[k]] EXCEPT !.to = buffer[end(k)].to]]

(* The bytes of a field in pieces of at most chunkSize bytes; none if it is empty. *)
chunkBuffer(field, no, size, chunkSize) ==
  [i \in 1 .. (size + chunkSize - 1) \div chunkSize |->
    <<Piece("data", field, no, (i - 1) * chunkSize,
            IF i * chunkSize < size THEN i * chunkSize ELSE size)>>]

(* Buffers, at most chunkSize of them put together. *)
chunkArray(buffers, chunkSize) ==
  [i \in 1 .. (Len(buffers) + chunkSize - 1) \div chunkSize |->
    Concat(SubSeq(buffers, (i - 1) * chunkSize + 1,
                  IF i * chunkSize < Len(buffers) THEN i * chunkSize ELSE Len(buffers)))]

serializeList(field, width, members) == LengthOf(field, width) \o Concat(members)

getSerializedTextWithLength(field, size, width) == LengthOf(field, width) \o Field(field, size)

(* Path.ts prefixes the elements of a derivation path by their number, the *)
(* purpose and the coin type; the governance subtree has three elements.   *)
pathAsBuffer(elements) == Field("path", 1 + 4 * (2 + elements))
getAccountPath == pathAsBuffer(6)
getGovernancePath == pathAsBuffer(3)
=============================================================================
