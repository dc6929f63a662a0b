---------------------------- MODULE PreparedKeys ----------------------------
(***************************************************************************)
(* What a key becomes on its way in: prf_tag of                              *)
(* crates/oram/src/oblivious/crypto.rs, its tag, and copy_prefix of          *)
(* oblivious/mod.rs, the payload that blocks carry.  AES is a permutation of *)
(* blocks of ChunkLen bytes.  Two keys are prepared, to be compared.         *)
(***************************************************************************)
EXTENDS Integers, Sequences, Bitwise

CONSTANTS
  ChunkLen,           \* the bytes of an AES block
  Byte,               \* 0..(2^w - 1)
  Ciphers,            \* permutations of the blocks, what encrypt_block may be
  MaxKeyLen,          \* bound: the longest key
  PayloadLens         \* the lengths K of payloads

VARIABLES
  prf, K, keys,
  which,              \* the key at work
  state, offset,      \* prf_tag's state and how much of the key is in it
  prepared            \* of each key that is done, the state and the payload

vars == <<prf, K, keys, which, state, offset, prepared>>

padded(bytes, len) == [i \in 1..len |-> IF i \in DOMAIN bytes THEN bytes[i] ELSE 0]

copy_prefix(key) == padded(key, K)

absorbed(chunk) == prf[[i \in 1..ChunkLen |-> state[i] ^^ chunk[i]]]

remaining == Len(keys[which]) - offset

AbsorbChunk ==
  /\ which <= 2 /\ remaining >= ChunkLen
  /\ state' = absorbed(SubSeq(keys[which], offset + 1, offset + ChunkLen))
  /\ offset' = offset + ChunkLen
  /\ UNCHANGED <<prf, K, keys, which, prepared>>

\* Mutant: the empty key is not encrypted.
has_last_part == remaining > 0
has_last_block == remaining > 0 \/ keys[which] = <<>>

\* The remainder, when there is one or the key is empty, is padded with zeros.
FinishTag ==
  /\ which <= 2 /\ remaining < ChunkLen
  /\ LET rest == padded(SubSeq(keys[which], offset + 1, Len(keys[which])), ChunkLen)
         last == IF has_last_block THEN absorbed(rest) ELSE state
     IN  prepared' = Append(prepared, [state |-> last, payload |-> copy_prefix(keys[which])])
  /\ which' = which + 1 /\ offset' = 0
  /\ state' = padded(<<>>, ChunkLen)
  /\ UNCHANGED <<prf, K, keys>>

Init ==
  /\ prf \in Ciphers /\ K \in PayloadLens
  /\ LET any == UNION {[1..n -> Byte] : n \in 0..MaxKeyLen} IN keys \in any \X any
  /\ which = 1 /\ offset = 0 /\ prepared = <<>>
  /\ state = padded(<<>>, ChunkLen)

Next == AbsorbChunk \/ FinishTag
Spec == Init /\ [][Next]_vars
-----------------------------------------------------------------------------
chunks(key) == IF key = <<>> THEN 1 ELSE (Len(key) + ChunkLen - 1) \div ChunkLen
chunk(key, c) ==
  LET from == (c - 1) * ChunkLen
  IN  [i \in 1..ChunkLen |-> IF from + i \in DOMAIN key THEN key[from + i] ELSE 0]

\* Blocks with one payload belong on one path, for a read removes by payload what it finds on
\* the path of a tag.  Both pad with zeros, and agree on which keys are the same, for keys
\* that fit the payload and fill equally many chunks (with K = ChunkLen, all that fit).
OnePayloadOneTag ==
  which = 3 =>
    LET a == keys[1] b == keys[2]
    IN  /\ Len(a) <= K /\ Len(b) <= K /\ chunks(a) = chunks(b)
        /\ prepared[1].payload = prepared[2].payload
        => prepared[1].state = prepared[2].state

\* A difference in one chunk reaches the state that the tag is cut from, whatever chunks
\* follow.
DifferenceReachesTag ==
  which = 3 =>
    LET a == keys[1] b == keys[2]
        differing == {c \in 1..chunks(a) : chunk(a, c) # chunk(b, c)}
    IN  chunks(a) = chunks(b) /\ (\E c \in differing : differing = {c}) =>
          prepared[1].state # prepared[2].state
=============================================================================
