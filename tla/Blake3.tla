------------------------------- MODULE Blake3 -------------------------------
(***************************************************************************)
(* The hash of a header, twice: as the host computes it (blake3/block.go,  *)
(* convert.go) and as the kernel does (blake3.cl), which is given the      *)
(* midstate and the words of the last block as arguments, hashes its own   *)
(* global id as the nonce and leaves out every addition of a message word  *)
(* that is always zero.  Both are compared with the hash's definition.     *)
(*                                                                         *)
(* A 32-bit word is a pair of halves, <<high, low>>.  Bytes are taken as   *)
(* the words they make: each conversion to bytes here is undone by the     *)
(* inverse conversion, of the same byte order.                             *)
(***************************************************************************)
EXTENDS Integers, Sequences
LOCAL INSTANCE SequencesExt

Half == 65536
Words32 == (0..(Half - 1)) \X (0..(Half - 1))

\* The 192 bytes a device keeps of a header.
HeaderWords == [1..48 -> Words32]

Add[a, b \in Words32] ==
    <<(a[1] + b[1] + ((a[2] + b[2]) \div Half)) % Half, (a[2] + b[2]) % Half>>

\* Two bits differ when their sum is odd.
Xor[a, b \in Nat] ==
    IF a + b = 0 THEN 0 ELSE 2 * Xor[a \div 2, b \div 2] + ((a + b) % 2)

XorWords[a, b \in Words32] == <<Xor[a[1], b[1]], Xor[a[2], b[2]]>>

\* Rotation to the right by n <= 16 bits.
Rotate[a \in Words32, n \in 0..16] ==
    LET low(i) == a[i] \div 2^n
        high(i) == (a[i] % 2^n) * 2^(16 - n)
    IN  <<low(1) + high(2), low(2) + high(1)>>

Word32(n) == <<n \div Half, n % Half>>
Zero == Word32(0)

FlagChunkStart == 1
flagChunkEnd == 2
flagRoot == 8

IV == << <<\h6a09, \he667>>, <<\hbb67, \hae85>>, <<\h3c6e, \hf372>>, <<\ha54f, \hf53a>>,
         <<\h510e, \h527f>>, <<\h9b05, \h688c>>, <<\h1f83, \hd9ab>>, <<\h5be0, \hcd19>> >>

-----------------------------------------------------------------------------
(***************************************************************************)
(* One round.  The state is four rows of four words; a round applies g to  *)
(* its columns and then to its diagonals, with two message words each.     *)
(***************************************************************************)
g[a, b, c, d, mx, my \in Words32] ==
    LET a1 == Add[Add[a, b], mx]    d1 == Rotate[XorWords[d, a1], 16]
        c1 == Add[c, d1]            b1 == Rotate[XorWords[b, c1], 12]
        a2 == Add[Add[a1, b1], my]  d2 == Rotate[XorWords[d1, a2], 8]
        c2 == Add[c1, d2]           b2 == Rotate[XorWords[b1, c2], 7]
    IN  <<a2, b2, c2, d2>>

\* g number i takes column i of the state, from i = 4 on with row k turned by k
\* places; words: the 16 message words in the order the round takes them.
Round(state, words) ==
    LET place(row, i) == 4 * row + ((i + row * (i \div 4)) % 4) + 1
        column(v, i) ==
            LET w == g[v[place(0, i)], v[place(1, i)], v[place(2, i)], v[place(3, i)],
                       words[2 * i + 1], words[2 * i + 2]]
            IN  [v EXCEPT ![place(0, i)] = w[1], ![place(1, i)] = w[2],
                          ![place(2, i)] = w[3], ![place(3, i)] = w[4]]
    IN  FoldLeft(column, state, <<0, 1, 2, 3, 4, 5, 6, 7>>)

StartState(cv, blockLen, flags) ==
    cv \o SubSeq(IV, 1, 4) \o <<Zero, Zero, Word32(blockLen), Word32(flags)>>

\* The words of m a schedule names for each round.
WordsOf(schedule, m) == [n \in 1..7 |-> [i \in 1..16 |-> m[schedule[n][i]]]]

\* Seven rounds.  Each CHOOSE has one value: it makes TLC evaluate a state before
\* the next round.
Rounds(start, words) ==
    LET next(v, row) == CHOOSE w \in {Round(u, row) : u \in {v}} : TRUE
    IN  FoldLeft(next, start, words)

LastWord(v) == XorWords[v[8], v[16]]
Output(v) == [i \in 1..8 |-> XorWords[v[i], v[i + 8]]]

-----------------------------------------------------------------------------
(***************************************************************************)
(* The host.                                                               *)
(***************************************************************************)
\* Which message word each round takes, as written out in compress.
Schedule ==
    << <<0, 1, 2, 3, 4, 5, 6, 7, 8, 9, 10, 11, 12, 13, 14, 15>>,
       <<2, 6, 3, 10, 7, 0, 4, 13, 1, 11, 12, 5, 9, 14, 15, 8>>,
       <<3, 4, 10, 12, 13, 2, 7, 14, 6, 5, 9, 0, 11, 15, 8, 1>>,
       <<10, 7, 12, 9, 14, 3, 13, 15, 4, 0, 11, 2, 5, 8, 1, 6>>,
       <<12, 13, 9, 11, 15, 10, 14, 8, 7, 2, 5, 3, 0, 1, 6, 4>>,
       <<9, 14, 11, 5, 8, 12, 15, 1, 13, 3, 0, 10, 2, 6, 4, 7>>,
       <<11, 15, 5, 0, 1, 9, 8, 6, 14, 10, 2, 12, 3, 4, 7, 13>> >>

compress(cv, block, blockLen, flags) ==
    Output(Rounds(StartState(cv, blockLen, flags),
                  WordsOf(Schedule, [j \in 0..15 |-> block[j + 1]])))

\* The words of at most 64 bytes, filled up with zeros.
intoWords(b) == [i \in 1..16 |-> IF i <= Len(b) THEN b[i] ELSE Zero]

Block(midstate, b, flags) == compress(midstate, intoWords(b), 4 * Len(b), flags)

\* Variant: the final block is not marked as the root.
FinalBlockNoRoot(midstate, b) == Block(midstate, b, flagChunkEnd)

FinalBlock(midstate, b) == Block(midstate, b, flagChunkEnd + flagRoot)

\* The midstate of updateCurrentWork and the rest of the header: 52 bytes are
\* hashed of what the device keeps as lastBlock.
Midstate(data) ==
    Block(Block(IV, SubSeq(data, 1, 16), FlagChunkStart), SubSeq(data, 17, 32), 0)
HostHash(data) == FinalBlock(Midstate(data), SubSeq(data, 33, 45))

-----------------------------------------------------------------------------
(***************************************************************************)
(* The kernel.                                                             *)
(***************************************************************************)
Nonce0Word == 3
No == 99    \* no word is added here

\* The same for the kernel, which leaves out the words that are always zero.
KernelSchedule ==
    << <<0, 1, 2, 3, 4, 5, 6, 7, 8, 9, 10, 11, 12, No, No, No>>,
       <<2, 6, 3, 10, 7, 0, 4, No, 1, 11, 12, 5, 9, No, No, 8>>,
       <<3, 4, 10, 12, No, 2, 7, No, 6, 5, 9, 0, 11, No, 8, 1>>,
       <<10, 7, 12, 9, No, 3, No, No, 4, 0, 11, 2, 5, 8, 1, 6>>,
       <<12, No, 9, 11, No, 10, No, 8, 7, 2, 5, 3, 0, 1, 6, 4>>,
       <<9, No, 11, 5, 8, 12, No, 1, No, 3, 0, 10, 2, 6, 4, 7>>,
       <<11, No, 5, 0, 1, 9, 8, 6, No, 10, 2, 12, 3, 4, 7, No>> >>

\* Variant: the word of the nonce is not left out.
NonceNotSkipped(block) == SubSeq(block, 1, 12)

\* Arguments 9 to 20 of the kernel: the words of lastBlock but the nonce.
setKernelArgs(block) ==
    [i \in 1..12 |-> IF i <= Nonce0Word THEN block[i] ELSE block[i + 1]]

\* The last word of the hash, which the kernel wants to be zero.
search(cv, args, nonce) ==
    LET m == [j \in (0..12) \cup {No} |->
                CASE j < Nonce0Word        -> args[j + 1]
                  [] j = Nonce0Word        -> nonce
                  [] j \in Nonce0Word+1..12 -> args[j]
                  [] j = No                -> Zero]
    IN  LastWord(Rounds(StartState(cv, 52, 10), WordsOf(KernelSchedule, m)))

-----------------------------------------------------------------------------
(***************************************************************************)
(* The hash's definition, and what both have to agree on.                  *)
(***************************************************************************)
Permutation == <<2, 6, 3, 10, 7, 0, 4, 13, 1, 11, 12, 5, 9, 14, 15, 8>>

\* The order the words are taken in: permuted between one round and the next.
Permuted(order) == [j \in 1..16 |-> order[Permutation[j] + 1]]
DefinedOrder ==
    LET o1 == [j \in 1..16 |-> j]
        o2 == Permuted(o1)  o3 == Permuted(o2)  o4 == Permuted(o3)
        o5 == Permuted(o4)  o6 == Permuted(o5)  o7 == Permuted(o6)
    IN  <<o1, o2, o3, o4, o5, o6, o7>>

Compression(cv, block, blockLen, flags) ==
    Output(Rounds(StartState(cv, blockLen, flags), WordsOf(DefinedOrder, block)))

\* The published hash of the empty message: the definition here is BLAKE3's.
EmptyHash ==
    << <<\hb949, \h13af>>, <<\ha6a1, \hf9f5>>, <<\hea4d, \h40a0>>, <<\h49c9, \hdc36>>,
       <<\hc925, \hcb9b>>, <<\hb712, \hc1ad>>, <<\hca93, \h9acc>>, <<\h6232, \h1fe4>> >>
ASSUME TestVector == Compression(IV, intoWords(<<>>), 0, 11) = EmptyHash

\* A header is one chunk of three blocks, the last one short.
HeaderHash(data) ==
    LET words(from) == [i \in 1..16 |-> data[from + i - 1]]
        last == [i \in 1..16 |-> IF i <= 13 THEN data[32 + i] ELSE Zero]
        cv1 == Compression(IV, words(1), 64, FlagChunkStart)
        cv2 == Compression(cv1, words(17), 64, 0)
    IN  Compression(cv2, last, 52, flagChunkEnd + flagRoot)

\* The host hashes a header as BLAKE3 is defined: the written-out schedule of
\* compress is the permutation its comment gives, and the chaining of device.go
\* is that of one chunk.
HashesAsDefined(data) == HostHash(data) = HeaderHash(data)

\* The kernel and the host agree on the last word of a header's hash, whatever
\* the midstate, for the words the device hands the kernel and the header
\* foundCandidate puts together: so a candidate always ends in a zero word there.
KernelAgrees(data) ==
    LET midstate == SubSeq(data, 1, 8)
        block == SubSeq(data, 33, 48)
    IN  search(midstate, setKernelArgs(block), block[Nonce0Word + 1])
            = FinalBlock(midstate, SubSeq(data, 33, 45))[8]
=============================================================================
