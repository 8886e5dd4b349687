------------------------------ MODULE Versions ------------------------------
(***************************************************************************)
(* The orders of version strings that select which packages to prefetch:   *)
(* debianVersionCompare of the APT backend and apkVersionCompare of the    *)
(* APK backend, and the orders they stand for.  A string is the sequence   *)
(* of its bytes.                                                           *)
(***************************************************************************)
EXTENDS Integers, Sequences

CONSTANTS
  Written,  \* the versions that are compared, by their parts
  MaxInt    \* the greatest number an int of Go holds

Byte  == 0..255
Digit == 48..57
Zero  == 48
Dash  == 45
Colon == 58
Tilde == 126
Letter_r == 114

\* A version has an epoch, a text and a revision; what is absent is empty.
ASSUME VersionsAssumption ==
  /\ MaxInt \in Nat
  /\ Written \subseteq [epoch : Seq(Digit), text : Seq(Byte), revision : Seq(Byte)]

VARIABLES left, right

Sign(n) == IF n < 0 THEN -1 ELSE IF n > 0 THEN 1 ELSE 0

First(places) == CHOOSE i \in places : \A j \in places : i <= j
Last(places)  == CHOOSE i \in places : \A j \in places : j <= i

Places(s, b) == {i \in 1..Len(s) : s[i] = b}

\* What has ended goes on as 0.
At(s, i) == IF i <= Len(s) THEN s[i] ELSE 0

\* strings.Compare, for digits of one length; and the order of keys.
Compare(s, t) ==
  LET unequal == {i \in 1..(Len(s) + Len(t)) : At(s, i) # At(t, i)}
  IN IF unequal = {} THEN 0 ELSE Sign(At(s, First(unequal)) - At(t, First(unequal)))

\* for i < len(s) && s[i] is in B { i++ }
Skip(s, i, B) ==
  CHOOSE n \in i..(Len(s) + 1) :
    (\A k \in i..(n - 1) : s[k] \in B) /\ (n <= Len(s) => s[n] \notin B)

Digits(s, i) == SubSeq(s, i, Skip(s, i, Digit) - 1)

\* The number that digits denote, and what a loop over them makes of an int.
Value(digits) ==
  LET value[n \in 0..Len(digits)] ==
        IF n = 0 THEN 0 ELSE 10 * value[n - 1] + (digits[n] - Zero)
  IN value[Len(digits)]

Wrap(n) == ((n + MaxInt + 1) % (2 * (MaxInt + 1))) - (MaxInt + 1)

Number(digits) ==
  LET int[n \in 0..Len(digits)] ==
        IF n = 0 THEN 0 ELSE Wrap(10 * int[n - 1] + (digits[n] - Zero))
  IN int[Len(digits)]

-----------------------------------------------------------------------------
(* What both comparisons do where each string is at a number or has ended: *)
(* skip zeros, and compare the digits by how many they are, then as text.  *)

AsText(s, i, t, j) == Compare(Digits(s, i), Digits(t, j))

Numbers(s, i, t, j) ==
  LET d == Digits(s, Skip(s, i, {Zero}))
      e == Digits(t, Skip(t, j, {Zero}))
  IN IF Len(d) # Len(e) THEN Sign(Len(d) - Len(e)) ELSE Compare(d, e)

\* What is next of both: it follows their last bytes at the end.
Positions(s, t) == (1..(Len(s) + 1)) \X (1..(Len(t) + 1))

-----------------------------------------------------------------------------
(* apt/version.go.                                                         *)

DebianOrder(b) ==
  CASE b = Tilde -> -1
    [] b \in 65..90 \cup 97..122 -> b
    [] OTHER -> b + 256

\* The order of the next byte; a number and the end come before all but a tilde.
InText(s, i)    == i <= Len(s) /\ s[i] \notin Digit
NextOrder(s, i) == IF InText(s, i) THEN DebianOrder(s[i]) ELSE 0
Step(s, i)      == IF InText(s, i) THEN i + 1 ELSE i

\* A turn of the loops, with s read up to i and t up to j.
DebianTurn(from, s, i, t, j) ==
  CASE InText(s, i) \/ InText(t, j) ->
         IF NextOrder(s, i) # NextOrder(t, j) THEN Sign(NextOrder(s, i) - NextOrder(t, j))
         ELSE from[<<Step(s, i), Step(t, j)>>]
    [] i > Len(s) /\ j > Len(t) -> 0
    [] OTHER ->
         IF Numbers(s, i, t, j) # 0 THEN Numbers(s, i, t, j)
         ELSE from[<<Skip(s, i, Digit), Skip(t, j, Digit)>>]

CompareDebianPart(s, t) ==
  LET from[p \in Positions(s, t)] == DebianTurn(from, s, p[1], t, p[2])
  IN from[<<1, 1>>]

\* As if the revision began at the first dash.
AtFirstDash(version) ==
  LET colons == Places(version, Colon)
      rest   == IF colons = {} THEN version
                ELSE SubSeq(version, First(colons) + 1, Len(version))
      dashes == Places(rest, Dash)
  IN [epoch    |-> IF colons = {} THEN 0 ELSE Number(Digits(version, 1)),
      upstream |-> IF dashes = {} THEN rest ELSE SubSeq(rest, 1, First(dashes) - 1),
      revision |-> IF dashes = {} THEN <<Zero>>
                   ELSE SubSeq(rest, First(dashes) + 1, Len(rest))]

\* The epoch is read up to the first byte that is not a digit.
SplitDebianVersion(version) ==
  LET colons == Places(version, Colon)
      rest   == IF colons = {} THEN version
                ELSE SubSeq(version, First(colons) + 1, Len(version))
      dashes == Places(rest, Dash)
  IN [epoch    |-> IF colons = {} THEN 0 ELSE Number(Digits(version, 1)),
      upstream |-> IF dashes = {} THEN rest ELSE SubSeq(rest, 1, Last(dashes) - 1),
      revision |-> IF dashes = {} THEN <<Zero>>
                   ELSE SubSeq(rest, Last(dashes) + 1, Len(rest))]

DebianVersionCompare(u, v) ==
  LET l == SplitDebianVersion(u)
      r == SplitDebianVersion(v)
      upstream == CompareDebianPart(l.upstream, r.upstream)
  IN IF l.epoch # r.epoch THEN Sign(l.epoch - r.epoch)
     ELSE IF upstream # 0 THEN upstream
     ELSE CompareDebianPart(l.revision, r.revision)

-----------------------------------------------------------------------------
(* apk/version.go.                                                         *)

Past(s, i) == IF i <= Len(s) THEN i + 1 ELSE i

ApkTurn(from, s, i, t, j) ==
  CASE i > Len(s) /\ j > Len(t) -> 0
    [] At(s, i) \in Digit /\ At(t, j) \in Digit ->
         IF Numbers(s, i, t, j) # 0 THEN Numbers(s, i, t, j)
         ELSE from[<<Skip(s, i, Digit), Skip(t, j, Digit)>>]
    [] OTHER ->
         IF At(s, i) # At(t, j) THEN Sign(At(s, i) - At(t, j))
         ELSE from[<<Past(s, i), Past(t, j)>>]

CompareVersionBase(s, t) ==
  LET from[p \in Positions(s, t)] == ApkTurn(from, s, p[1], t, p[2])
  IN from[<<1, 1>>]

Markers(s) == {i \in 1..(Len(s) - 1) : s[i] = Dash /\ s[i + 1] = Letter_r}

\* What follows the last -r, if only digits follow it.
SplitVersion(version) ==
  LET marker == Last(Markers(version))
      suffix == SubSeq(version, marker + 2, Len(version))
  IN IF Markers(version) # {} /\ Skip(suffix, 1, Digit) > Len(suffix)
     THEN [base |-> SubSeq(version, 1, marker - 1), revision |-> Number(suffix)]
     ELSE [base |-> version, revision |-> 0]

ApkVersionCompare(u, v) ==
  LET l == SplitVersion(u)
      r == SplitVersion(v)
      base == CompareVersionBase(l.base, r.base)
  IN IF base # 0 THEN base ELSE Sign(l.revision - r.revision)

-----------------------------------------------------------------------------
(* The orders that the two stand for.  A key is a sequence of integers, as *)
(* if followed by zeros without end, and keys compare as strings do: this  *)
(* is an order, total on keys, whatever the strings.                       *)

\* The bytes by their weight, and for a number a weight of its own and its value.
Key(s, number, weight) ==
  LET key[i \in 1..(Len(s) + 1)] ==
        IF i > Len(s) THEN <<>>
        ELSE IF s[i] \in Digit THEN <<number, Value(Digits(s, i))>> \o key[Skip(s, i, Digit)]
        ELSE <<weight[s[i]]>> \o key[i + 1]
  IN key[1]

\* Debian's: letters as they are and other bytes after them, a tilde before all
\* else; a number sorts as the end does.
DebianWeight ==
  [b \in Byte |-> CASE b = Tilde -> -1
                    [] b \in 65..90 \cup 97..122 -> b
                    [] OTHER -> 256 + b]

DebianKey(s) == Key(s, 0, DebianWeight)

\* Alpine's: bytes, and numbers by their value where both strings have one.
ApkKey(s) == Key(s, Zero, [b \in Byte |-> b])

-----------------------------------------------------------------------------
(* Two versions as they are written, compared in either direction.         *)

PairInit == left \in Written /\ right \in Written

PairNext == left' = right /\ right' = left

PairSpec == PairInit /\ [][PairNext]_<<left, right>>

InDebian(v) ==
  (IF v.epoch = <<>> THEN <<>> ELSE v.epoch \o <<Colon>>) \o v.text
    \o (IF v.revision = <<>> THEN <<>> ELSE <<Dash>> \o v.revision)

\* In the form that Debian gives them: a colon calls for an epoch, a dash for a
\* revision.
OfDebian(v) ==
  /\ Value(v.epoch) <= MaxInt
  /\ v.epoch = <<>> => Places(v.text, Colon) = {} /\ Places(v.revision, Colon) = {}
  /\ v.revision = <<>> => Places(v.text, Dash) = {}
  /\ Places(v.revision, Dash) = {}

InApk(v) == v.text \o (IF v.revision = <<>> THEN <<>> ELSE <<Dash, Letter_r>> \o v.revision)

\* And Alpine: no epoch, and no text that passes for a revision.
OfApk(v) ==
  /\ v.epoch = <<>> /\ v.revision \in Seq(Digit) /\ Value(v.revision) <= MaxInt
  /\ v.revision = <<>> => Markers(v.text) = {}

\* debianVersionCompare is Debian's order on what is written in its form: the
\* epoch, then the text, then the revision, of which none is as good as 0.
DebianExact ==
  OfDebian(left) /\ OfDebian(right) =>
    LET key(v) == <<Value(v.epoch), DebianKey(v.text), DebianKey(v.revision)>>
        k == key(left)
        l == key(right)
    IN DebianVersionCompare(InDebian(left), InDebian(right))
         = IF k[1] # l[1] THEN Sign(k[1] - l[1])
           ELSE IF Compare(k[2], l[2]) # 0 THEN Compare(k[2], l[2])
           ELSE Compare(k[3], l[3])

\* apkVersionCompare is an order too, on what has the form that its comment
\* names: the text, then the number after -r, of which none is as good as 0.
ApkExact ==
  OfApk(left) /\ OfApk(right) =>
    LET texts == Compare(ApkKey(left.text), ApkKey(right.text))
    IN ApkVersionCompare(InApk(left), InApk(right))
         = IF texts # 0 THEN texts ELSE Sign(Value(left.revision) - Value(right.revision))
=============================================================================
