------------------------------ MODULE MtaShares ------------------------------
(***************************************************************************)
(* The arithmetic of one run of the protocol: what Alice draws and sends,  *)
(* what Bob makes of it, and the two additive shares.  Alice computes in   *)
(* JavaScript numbers, Bob in uint32_t and uint64_t.                       *)
(***************************************************************************)
EXTENDS Integers

CONSTANTS BitLength,         \* bits of a share: 32
          Mantissa,          \* bits of a double's significand: 53
          XShares, YShares   \* the multiplicative shares tried

\* 2^n.
Pow2[n \in Nat] == IF n = 0 THEN 1 ELSE 2 * Pow2[n - 1]

Modulus == Pow2[BitLength]
Word == 0..(Modulus - 1)
Bits == 0..(BitLength - 1)

ASSUME SharesAssumption ==
  /\ BitLength \in Nat \ {0} /\ Mantissa \in Nat /\ Mantissa > BitLength
  /\ YShares \subseteq Word

VARIABLES
  stage,           \* start, prepared (AliceMessages made), answered, done
  xShare, yShare,  \* the multiplicative shares
  random_U, alpha, masked_share,  \* Alice's draws, and x * alpha
  mc,              \* the words Bob takes out of the 32 transfers
  cotShare,        \* Bob's result.additive_share_V
  bobShare, aliceShare            \* the additive shares

vars == <<stage, xShare, yShare, random_U, alpha, masked_share,
          mc, cotShare, bobShare, aliceShare>>

-----------------------------------------------------------------------------
(* Numbers. *)

\* n | 0, and what 1 << 31 is: a signed word.
ToInt32(n) == LET w == n % Modulus IN IF 2 * w < Modulus THEN w ELSE w - Modulus

\* n >>> 0.
ToUint32(n) == n % Modulus

\* A sum or product of two numbers, rounded to Mantissa bits, ties to even.
RoundToDouble(n) ==
  LET size == IF n < 0 THEN -n ELSE n
      e    == CHOOSE k \in 0..(Mantissa + BitLength) :
                size < Pow2[Mantissa + k] /\ (k = 0 \/ size >= Pow2[Mantissa + k - 1])
      q    == size \div Pow2[e]
      r    == size % Pow2[e]
      up   == 2 * r > Pow2[e] \/ (2 * r = Pow2[e] /\ q % 2 = 1)
      near == Pow2[e] * (IF up THEN q + 1 ELSE q)
  IN IF n < 0 THEN -near ELSE near

\* parseArguments: a share need only be a double above 0, not a word.
CommandLineShares == {x \in 1..Pow2[2 * Mantissa] : RoundToDouble(x) = x}

ASSUME XSharesAssumption == XShares \subseteq CommandLineShares

GetBit(value, i) == (value \div Pow2[i]) % 2

\* The loop over the bits that both programs have: one term each, cut to a word.
Accumulate(term) ==
  LET sum[i \in 0..BitLength] == IF i = 0 THEN 0 ELSE (sum[i - 1] + term[i - 1]) % Modulus
  IN sum[BitLength]

-----------------------------------------------------------------------------
(* Alice *)

\* Mutant of MaskedShare: >>> 0 is left out.
MaskedShareUncut(x, mask) == RoundToDouble(x * mask)

MaskedShare(x, mask) == ToUint32(RoundToDouble(x * mask))

\* Mutant of COTMessages: the sum is not cut to a word.
COTMessagesUncut(U, x, i) == [m0 |-> U[i], m1 |-> RoundToDouble(U[i] + x)]

\* generateCOTMessages: m0 for a bit 0 of y, m1 for a bit 1.
COTMessages(U, x, i) == [m0 |-> U[i], m1 |-> ToUint32(RoundToDouble(U[i] + x))]

\* The term of bit i; 1 << 31 is negative.
Term(U, i) == ToUint32(RoundToDouble(U[i] * ToInt32(Pow2[i])))

\* Mutant of CalculateAdditiveShare: the loop ends one bit early.
ShareWithoutTopBit(U) ==
  ToUint32(Accumulate([i \in Bits |-> IF i = BitLength - 1 THEN 0 ELSE Term(U, i)]))

CalculateAdditiveShare(U) == ToUint32(Accumulate([i \in Bits |-> Term(U, i)]))

PrepareAliceMessages ==
  /\ stage = "start"
  /\ \E U \in [Bits -> Word], mask \in Word :
       /\ random_U' = U
       /\ alpha' = mask
       /\ masked_share' = MaskedShare(xShare, mask)
  /\ stage' = "prepared"
  /\ UNCHANGED <<xShare, yShare, mc, cotShare, bobShare, aliceShare>>

ExecuteAliceMTA ==
  /\ stage = "answered"
  /\ aliceShare' = CalculateAdditiveShare(random_U)
  /\ stage' = "done"
  /\ UNCHANGED <<xShare, yShare, random_U, alpha, masked_share, mc, cotShare, bobShare>>

-----------------------------------------------------------------------------
(* Bob *)

ExecuteCOTMultiplication(words) ==
  Accumulate([i \in Bits |-> (words[i] * Pow2[i]) % Modulus])

\* executeBobMTA: beta * masked_share + V; the 64-bit sum does not wrap.
ExecuteBobMTA(beta, masked, V) == (beta * masked + V) % Modulus

\* process_alice_messages, with the words and the masked share Bob reads.
ProcessAliceMessages(words, masked) ==
  /\ stage = "prepared"
  /\ mc' = words
  /\ cotShare' = ExecuteCOTMultiplication(words)
  /\ \E beta \in Word : bobShare' = ExecuteBobMTA(beta, masked, cotShare')
  /\ stage' = "answered"
  /\ UNCHANGED <<xShare, yShare, random_U, alpha, masked_share, aliceShare>>

(***************************************************************************)
(* processSingleCOT decrypts with a shared_secret nothing has written, and *)
(* what it decrypts lies behind the frame AliceMessages came in: each word *)
(* can be any.  So can the masked share, cut out of another layout.        *)
(***************************************************************************)
BobReads ==
  \E words \in [Bits -> Word], masked \in Word : ProcessAliceMessages(words, masked)

\* The words of transfers that deliver what they are for.
ChosenWords ==
  [i \in Bits |-> LET m == COTMessages(random_U, xShare, i) IN
                  IF GetBit(yShare, i) = 1 THEN m.m1 ELSE m.m0]

\* One outcome of BobReads: every transfer works, and the masked share arrives.
BobReadsAll == ProcessAliceMessages(ChosenWords, masked_share)

-----------------------------------------------------------------------------

Init ==
  /\ stage = "start"
  /\ xShare \in XShares /\ yShare \in YShares
  /\ random_U = [i \in Bits |-> 0] /\ mc = [i \in Bits |-> 0]
  /\ alpha = 0 /\ masked_share = 0 /\ cotShare = 0 /\ bobShare = 0 /\ aliceShare = 0

Spec == Init /\ [][PrepareAliceMessages \/ BobReads \/ ExecuteAliceMTA]_vars

\* The behaviours of Spec in which nothing is lost between the two.
IdealSpec == Init /\ [][PrepareAliceMessages \/ BobReadsAll \/ ExecuteAliceMTA]_vars

TypeOK ==
  /\ stage \in {"start", "prepared", "answered", "done"}
  /\ xShare \in XShares
  /\ {yShare, alpha, masked_share, cotShare, bobShare, aliceShare} \subseteq Word
  /\ random_U \in [Bits -> Word] /\ mc \in [Bits -> Word]

-----------------------------------------------------------------------------
(* What the proofs about IdealSpec start from: what each value was computed from. *)

Computed ==
  /\ stage # "start" => masked_share = MaskedShare(xShare, alpha)
  /\ stage \in {"answered", "done"} =>
       mc = ChosenWords /\ cotShare = ExecuteCOTMultiplication(mc)
  /\ stage = "done" => aliceShare = CalculateAdditiveShare(random_U)

IInv == TypeOK /\ Computed

-----------------------------------------------------------------------------

(***************************************************************************)
(* The multiplication itself is right: given the words the transfers are   *)
(* for, Bob's V exceeds Alice's U by x * y, for every bit pattern, with    *)
(* the signed 1 << 31 and the doubles of calculateAdditiveShare            *)
(* (cot-protocol.ts:160) against the uint64_t of cot_protocol.cpp:110.     *)
(* Nothing bounds a share from the command line (index.ts:42), but only    *)
(* where U_i + x may exceed 2^53 does its rounding spoil the product.      *)
(***************************************************************************)
ProductIsShared ==
  stage = "done" /\ xShare + Modulus - 1 <= Pow2[Mantissa] =>
    (cotShare - aliceShare) % Modulus = (xShare * yShare) % Modulus

(***************************************************************************)
(* The product x * alpha (mta-protocol.ts:104) loses low bits above 2^53.  *)
(* It does not for shares up to 2^21, among them all generateRandomShare   *)
(* draws; shares from the command line may be larger.                      *)
(***************************************************************************)
MaskExactForSmallShares ==
  stage # "start" /\ xShare * Modulus <= Pow2[Mantissa] =>
    masked_share = (xShare * alpha) % Modulus

\* cot_protocol.cpp:102 of each mc_i: "this is Ui + yi * x".
ReceivedIsCorrelated ==
  stage = "answered" =>
    \A i \in Bits : mc[i] = (random_U[i] + GetBit(yShare, i) * xShare) % Modulus

(***************************************************************************)
(* README.md:3 of the two parties: they hold multiplicative shares and     *)
(* "convert them to additive shares", so the new ones add up to x * y.     *)
(***************************************************************************)
SharesAddUp ==
  stage = "done" => (aliceShare + bobShare) % Modulus = (xShare * yShare) % Modulus

=============================================================================
