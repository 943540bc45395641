---------------------------- MODULE VersionNumbers ----------------------------
(***************************************************************************)
(* The order of version numbers.                                            *)
(*                                                                          *)
(* A version is the triple of its core, major, minor and patch, and a       *)
(* sequence of prerelease identifiers; an identifier <<0, n>> is a number   *)
(* and <<1, n>> a word, n its place among the words.  Numbers are exact     *)
(* here; those of the code are doubles, and two that differ may compare     *)
(* equal from 2^53 on.                                                      *)
(***************************************************************************)
EXTENDS Integers, Sequences, FiniteSetsExt

Identifier == {0, 1} \X Nat
ParsedVersion == [core : Nat \X Nat \X Nat, prerelease : Seq(Identifier)]

-----------------------------------------------------------------------------
Sign(n) == IF n < 0 THEN -1 ELSE IF n > 0 THEN 1 ELSE 0

(* Mutant: words and numbers by value alone. *)
compareIdentifierValue(l, r) == Sign(l[2] - r[2])

(* Two identifiers at the same place: numbers by value and below words. *)
compareIdentifier(l, r) ==
  IF l[1] = 0 /\ r[1] = 0 THEN Sign(l[2] - r[2])
  ELSE IF l[1] # r[1] THEN IF l[1] = 0 THEN -1 ELSE 1
  ELSE Sign(l[2] - r[2])

(* A release is above its candidates; then the first place that differs, and  *)
(* a list that has ended is the lower.                                        *)
comparePrerelease(a, b) ==
  IF a = <<>> \/ b = <<>>
  THEN IF Len(a) = Len(b) THEN 0 ELSE IF a = <<>> THEN 1 ELSE -1
  ELSE LET differ == {i \in 1 .. Max({Len(a), Len(b)}) :
                        i > Len(a) \/ i > Len(b) \/ compareIdentifier(a[i], b[i]) # 0}
       IN IF differ = {} THEN 0
          ELSE LET i == Min(differ)
               IN IF i > Len(a) THEN -1 ELSE IF i > Len(b) THEN 1
                  ELSE compareIdentifier(a[i], b[i])

(* The first of the three parts that differs. *)
positional(a, b) ==
  IF a[1] # b[1] THEN a[1] - b[1] ELSE IF a[2] # b[2] THEN a[2] - b[2] ELSE a[3] - b[3]

compareParsed(a, b) ==
  IF positional(a.core, b.core) # 0 THEN Sign(positional(a.core, b.core))
  ELSE Sign(comparePrerelease(a.prerelease, b.prerelease))

-----------------------------------------------------------------------------
BeginsWith(s, t) == Len(t) < Len(s) /\ \A i \in 1 .. Len(t) : s[i] = t[i]

(* compareParsed orders versions as the specification of version numbers      *)
(* does, for any three: any two are comparable, equal only if they are the    *)
(* same, and what is above the one above is above; a candidate is below its   *)
(* release, and below a longer list that begins with it.                      *)
OrderedAsVersions(a, b, c) ==
  /\ compareParsed(a, b) = -compareParsed(b, a)
  /\ compareParsed(a, b) = 0 <=> a = b
  /\ compareParsed(a, b) < 0 /\ compareParsed(b, c) < 0 => compareParsed(a, c) < 0
  /\ a.core = b.core /\ a.prerelease # <<>> /\ b.prerelease = <<>> => compareParsed(a, b) < 0
  /\ a.core = b.core /\ a.prerelease # <<>> /\ BeginsWith(b.prerelease, a.prerelease)
       => compareParsed(a, b) < 0
=============================================================================
