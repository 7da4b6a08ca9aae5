---------------------------- MODULE ReleaseProofs ----------------------------
(***************************************************************************)
(* What the release scripts promise, for every number of commits, bundles  *)
(* and cuts: the package is one bundle, and the drill leaves the files as  *)
(* it found them.                                                          *)
(***************************************************************************)
EXTENDS Release, SequenceTheorems, TLAPS

(* What the scripts are made of. *)
Builds == {"clear", "tarball", "sha", "manifest", "summary", "entry", "status", "waiver", "sbom", "provenance"}
Name   == Builds \cup {"check", "ensure", "package", "snapshot", "simulate", "observe", "report"}
Item   == {"step", "previous", "current"} \X Name

(* A file is in dist or it is absent; there are no others. *)
Named(d) == d = [f \in File |-> d[f]]

(* No drill has made up the summary. *)
Clean(d) == d.summary # Absent => d.summary[2] = 0

(* The next step is the one at m of a script, or of the build before it. *)
AtHandoff(m) == todo = SubSeq(Steps(HandoffScript), m, 2)
AtDrill(m)   == todo = SubSeq(DrillScript, m, 23)
AtBuild(m)   == \E script \in {Steps(HandoffScript), DrillScript} :
                  todo = SubSeq(BuildScript, m, 12) \o Tail(script)

Building == \E m \in 1..12 : AtBuild(m)
Swapping == \E m \in 4..23 : AtDrill(m)

Placed == Building \/ (\E m \in 1..3 : AtHandoff(m)) \/ (\E m \in 1..24 : AtDrill(m))

PackageFits(p) == Complete(p.files) /\ Agree(p.files) /\ (p.eligible => "required" \notin p.blocking)

(* While files are swapped, those that are not as they were are still to be
   copied back. *)
ToBeRestored(m) ==
  /\ current = before
  /\ \A f \in File : dist[f] = before[f] \/ \E n \in 1..8 : f = Files[n] /\ m <= 13 + n

ReleaseInv ==
  /\ Named(dist) /\ Named(before)
  /\ Placed
  /\ Building \/ At("package") => Allowed
  /\ At("package") => Complete(dist) /\ Agree(dist)
  /\ package # <<>> => PackageFits(package)
  /\ \A m \in 4..23 : AtDrill(m) => ToBeRestored(m)
  /\ ~ swapped => Clean(IF Swapping THEN before ELSE dist)

-----------------------------------------------------------------------------
(* The scripts *)

LEMMA FilesAre == /\ ToSet(Files) = {"tarball", "sha", "summary", "manifest", "status", "sbom", "provenance", "waiver"}
                  /\ Files \in Seq(Name) /\ Len(Files) = 8
                  /\ \A n \in 1..8 : Files[n] \in ToSet(Files)
                  /\ \A f \in ToSet(Files) : \E n \in 1..8 : f = Files[n]
                  /\ \A m, n \in 1..8 : Files[m] = Files[n] => m = n
                  /\ File = ToSet(Files) \cup {"signatures"}
<1>1. DOMAIN Files = 1..8 /\ Len(Files) = 8 /\ Files = [n \in 1..8 |-> Files[n]]
  BY DEF Files
<1>2. /\ Files[1] = "tarball" /\ Files[2] = "sha" /\ Files[3] = "summary" /\ Files[4] = "manifest"
      /\ Files[5] = "status" /\ Files[6] = "sbom" /\ Files[7] = "provenance" /\ Files[8] = "waiver"
  BY DEF Files
<1>3. ToSet(Files) = {Files[n] : n \in 1..8}
  BY <1>1 DEF ToSet
<1>4. 1..8 = {1, 2, 3, 4, 5, 6, 7, 8}
  OBVIOUS
<1> HIDE DEF Files
<1>5. ToSet(Files) = {"tarball", "sha", "summary", "manifest", "status", "sbom", "provenance", "waiver"}
  BY <1>2, <1>3, <1>4
<1>6. \A n \in 1..8 : Files[n] \in Name
  BY <1>2, <1>4 DEF Name, Builds
<1>7. Files \in Seq(Name)
  BY <1>1, <1>6
<1>8. \A m, n \in 1..8 : Files[m] = Files[n] => m = n
  BY <1>2, <1>4
<1> QED BY <1>1, <1>3, <1>5, <1>7, <1>8 DEF File

(* A script is of items, as many as it has names. *)
LEMMA StepsAre == ASSUME NEW names \in Seq(Name), NEW m \in Nat, Len(names) = m
                  PROVE  /\ Steps(names) \in Seq(Item) /\ Len(Steps(names)) = m
                         /\ \A n \in 1..m : Steps(names)[n] = <<"step", names[n]>>
<1>1. \A n \in 1..m : <<"step", names[n]>> \in Item
  BY DEF Item
<1> QED BY <1>1 DEF Steps

LEMMA CopiesAre == ASSUME NEW from \in {"previous", "current"}
                   PROVE  /\ Copies(from) \in Seq(Item) /\ Len(Copies(from)) = 8
                          /\ \A n \in 1..8 : Copies(from)[n] = <<from, Files[n]>>
<1>1. \A n \in 1..8 : Files[n] \in Name
  BY FilesAre DEF Name, Builds
<1>2. \A n \in 1..8 : <<from, Files[n]>> \in Item
  BY <1>1 DEF Item
<1> QED BY <1>2, FilesAre DEF Copies

(* One sequence after another. *)
LEMMA ConcatIs ==
  ASSUME NEW S, NEW s \in Seq(S), NEW t \in Seq(S)
  PROVE  /\ s \o t \in Seq(S) /\ Len(s \o t) = Len(s) + Len(t)
         /\ \A k \in 1..Len(s) : (s \o t)[k] = s[k]
         /\ \A k \in 1..Len(t) : (s \o t)[Len(s) + k] = t[k]
<1>1. s \o t \in Seq(S) /\ Len(s \o t) = Len(s) + Len(t)
  BY ConcatProperties
<1>2. \A k \in 1..Len(s) : (s \o t)[k] = s[k]
  BY ConcatProperties
<1>3. ASSUME NEW k \in 1..Len(t) PROVE (s \o t)[Len(s) + k] = t[k]
  <2>1. Len(s) + k \in 1..(Len(s) + Len(t)) /\ ~ (Len(s) + k <= Len(s)) /\ (Len(s) + k) - Len(s) = k
    OBVIOUS
  <2> QED BY <2>1, ConcatProperties
<1> QED BY <1>1, <1>2, <1>3

LEMMA HandoffIs == /\ Steps(HandoffScript) \in Seq(Item) /\ Len(Steps(HandoffScript)) = 2
                   /\ Steps(HandoffScript)[1] = <<"step", "ensure">>
                   /\ Steps(HandoffScript)[2] = <<"step", "package">>
<1>1. /\ HandoffScript \in Seq(Name) /\ Len(HandoffScript) = 2
      /\ HandoffScript[1] = "ensure" /\ HandoffScript[2] = "package"
  BY DEF HandoffScript, Name
<1> HIDE DEF HandoffScript
<1> QED BY <1>1, StepsAre

LEMMA BuildIs == /\ BuildScript \in Seq(Item) /\ Len(BuildScript) = 12
                 /\ \A m \in 1..11 : \E name \in Builds : BuildScript[m] = <<"step", name>>
                 /\ BuildScript[12] = <<"step", "check">>
<1> DEFINE check == <<"check">>
           writes == BundleScript \o SupplyScript
           names == writes \o check
<1>1. /\ BundleScript \in Seq(Builds) /\ Len(BundleScript) = 8
      /\ SupplyScript \in Seq(Builds) /\ Len(SupplyScript) = 3
  BY DEF BundleScript, SupplyScript, Builds
<1>2. check \in Seq(Name) /\ Len(check) = 1 /\ check[1] = "check"
  BY DEF Name
<1>3. BuildScript = Steps(names)
  BY DEF BuildScript
<1> HIDE DEF check
<1>4. writes \in Seq(Builds) /\ Len(writes) = 11
  <2>1. writes \in Seq(Builds) /\ Len(writes) = Len(BundleScript) + Len(SupplyScript)
    BY <1>1, ConcatIs
  <2> HIDE DEF writes
  <2> QED BY <1>1, <2>1
<1> HIDE DEF writes
<1>5. writes \in Seq(Name) /\ \A m \in 1..11 : writes[m] \in Builds
  BY <1>4 DEF Name
<1> HIDE DEF names
<1>6. /\ names \in Seq(Name) /\ Len(names) = 12
      /\ (\A m \in 1..11 : names[m] = writes[m]) /\ names[12] = "check"
  <2>1. 1 \in 1..1 /\ 11 + 1 = 12
    OBVIOUS
  <2>2. writes \in Seq(Name) /\ check \in Seq(Name)
    BY <1>2, <1>5
  <2>3. /\ names \in Seq(Name) /\ Len(names) = Len(writes) + Len(check)
        /\ (\A k \in 1..Len(writes) : names[k] = writes[k])
        /\ \A k \in 1..Len(check) : names[Len(writes) + k] = check[k]
    BY <2>2, ConcatIs DEF names
  <2> QED BY <1>2, <1>4, <2>1, <2>3
<1>7. /\ Steps(names) \in Seq(Item) /\ Len(Steps(names)) = 12
      /\ \A m \in 1..12 : Steps(names)[m] = <<"step", names[m]>>
  BY <1>6, StepsAre
<1>8. \A m \in 1..11 : m \in 1..12 /\ names[m] \in Builds
  BY <1>5, <1>6
<1> QED BY <1>3, <1>6, <1>7, <1>8

LEMMA DrillIs == /\ DrillScript \in Seq(Item) /\ Len(DrillScript) = 23
                 /\ DrillScript[1] = <<"step", "ensure">> /\ DrillScript[2] = <<"step", "package">>
                 /\ DrillScript[3] = <<"step", "snapshot">> /\ DrillScript[4] = <<"step", "simulate">>
                 /\ \A n \in 1..8 : DrillScript[4 + n] = <<"previous", Files[n]>>
                 /\ DrillScript[13] = <<"step", "observe">>
                 /\ \A n \in 1..8 : DrillScript[13 + n] = <<"current", Files[n]>>
                 /\ DrillScript[22] = <<"step", "observe">> /\ DrillScript[23] = <<"step", "report">>
<1> DEFINE names == HandoffScript \o <<"snapshot", "simulate">>
           last == <<"observe", "report">>
           one == <<"observe">>
<1>1. /\ names \in Seq(Name) /\ Len(names) = 4
      /\ names[1] = "ensure" /\ names[2] = "package" /\ names[3] = "snapshot" /\ names[4] = "simulate"
  <2> DEFINE more == <<"snapshot", "simulate">>
  <2>1. /\ HandoffScript \in Seq(Name) /\ Len(HandoffScript) = 2
        /\ HandoffScript[1] = "ensure" /\ HandoffScript[2] = "package"
    BY DEF HandoffScript, Name
  <2>2. more \in Seq(Name) /\ Len(more) = 2 /\ more[1] = "snapshot" /\ more[2] = "simulate"
    BY DEF Name
  <2>3. 1 \in 1..2 /\ 2 \in 1..2 /\ 2 + 1 = 3 /\ 2 + 2 = 4
    OBVIOUS
  <2> HIDE DEF more
  <2>4. names = HandoffScript \o more
    BY DEF more
  <2>5. /\ names \in Seq(Name) /\ Len(names) = Len(HandoffScript) + Len(more)
        /\ \A k \in 1..Len(HandoffScript) : names[k] = HandoffScript[k]
        /\ \A k \in 1..Len(more) : names[Len(HandoffScript) + k] = more[k]
    BY <2>1, <2>2, <2>4, ConcatIs
  <2> HIDE DEF names
  <2> QED BY <2>1, <2>2, <2>3, <2>5
<1>2. last \in Seq(Name) /\ Len(last) = 2 /\ last[1] = "observe" /\ last[2] = "report"
  BY DEF Name
<1>3. one \in Seq(Name) /\ Len(one) = 1 /\ one[1] = "observe"
  BY DEF Name
<1>4. DrillScript = Steps(names) \o Copies("previous") \o Steps(one) \o Copies("current") \o Steps(last)
  BY DEF DrillScript
<1> HIDE DEF names, last, one
<1> DEFINE a == Steps(names)
           b == Copies("previous")
           c == Steps(one)
           d == Copies("current")
           e == Steps(last)
           ab == a \o b
           abc == ab \o c
           abcd == abc \o d
<1>5. /\ a \in Seq(Item) /\ Len(a) = 4
      /\ a[1] = <<"step", "ensure">> /\ a[2] = <<"step", "package">>
      /\ a[3] = <<"step", "snapshot">> /\ a[4] = <<"step", "simulate">>
  BY <1>1, StepsAre
<1>6. b \in Seq(Item) /\ Len(b) = 8 /\ \A n \in 1..8 : b[n] = <<"previous", Files[n]>>
  BY CopiesAre
<1>7. c \in Seq(Item) /\ Len(c) = 1 /\ c[1] = <<"step", "observe">>
  BY <1>3, StepsAre
<1>8. d \in Seq(Item) /\ Len(d) = 8 /\ \A n \in 1..8 : d[n] = <<"current", Files[n]>>
  BY CopiesAre
<1>9. e \in Seq(Item) /\ Len(e) = 2 /\ e[1] = <<"step", "observe">> /\ e[2] = <<"step", "report">>
  BY <1>2, StepsAre
<1> HIDE DEF a, b, c, d, e
<1>10. /\ ab \in Seq(Item) /\ Len(ab) = 12
       /\ (\A n \in 1..4 : ab[n] = a[n]) /\ \A n \in 1..8 : ab[4 + n] = b[n]
  <2>7. a \in Seq(Item) /\ b \in Seq(Item)
    BY <1>5, <1>6
  <2>8. /\ ab \in Seq(Item) /\ Len(ab) = Len(a) + Len(b)
        /\ (\A k \in 1..Len(a) : ab[k] = a[k])
        /\ \A k \in 1..Len(b) : ab[Len(a) + k] = b[k]
    BY <2>7, ConcatIs
  <2> HIDE DEF ab
  <2> QED BY <1>5, <1>6, <2>8
<1> HIDE DEF ab
<1>11. /\ abc \in Seq(Item) /\ Len(abc) = 13
       /\ (\A n \in 1..12 : abc[n] = ab[n]) /\ abc[13] = c[1]
  <2>1. 1 \in 1..1 /\ 12 + 1 = 13
    OBVIOUS
  <2>7. ab \in Seq(Item) /\ c \in Seq(Item)
    BY <1>7, <1>10
  <2>8. /\ abc \in Seq(Item) /\ Len(abc) = Len(ab) + Len(c)
        /\ (\A k \in 1..Len(ab) : abc[k] = ab[k])
        /\ \A k \in 1..Len(c) : abc[Len(ab) + k] = c[k]
    BY <2>7, ConcatIs
  <2> HIDE DEF abc
  <2> QED BY <1>7, <1>10, <2>8, <2>1
<1> HIDE DEF abc
<1>12. /\ abcd \in Seq(Item) /\ Len(abcd) = 21
       /\ (\A n \in 1..13 : abcd[n] = abc[n]) /\ \A n \in 1..8 : abcd[13 + n] = d[n]
  <2>7. abc \in Seq(Item) /\ d \in Seq(Item)
    BY <1>8, <1>11
  <2>8. /\ abcd \in Seq(Item) /\ Len(abcd) = Len(abc) + Len(d)
        /\ (\A k \in 1..Len(abc) : abcd[k] = abc[k])
        /\ \A k \in 1..Len(d) : abcd[Len(abc) + k] = d[k]
    BY <2>7, ConcatIs
  <2> HIDE DEF abcd
  <2> QED BY <1>8, <1>11, <2>8
<1> HIDE DEF abcd
<1>13. DrillScript = abcd \o e
  BY <1>4 DEF a, b, c, d, e, ab, abc, abcd
<1>14. /\ DrillScript \in Seq(Item) /\ Len(DrillScript) = 23
       /\ (\A n \in 1..21 : DrillScript[n] = abcd[n])
       /\ DrillScript[22] = e[1] /\ DrillScript[23] = e[2]
  <2>1. 1 \in 1..2 /\ 2 \in 1..2 /\ 21 + 1 = 22 /\ 21 + 2 = 23
    OBVIOUS
  <2>7. abcd \in Seq(Item) /\ e \in Seq(Item)
    BY <1>9, <1>12, <1>13
  <2>8. /\ DrillScript \in Seq(Item) /\ Len(DrillScript) = Len(abcd) + Len(e)
        /\ (\A k \in 1..Len(abcd) : DrillScript[k] = abcd[k])
        /\ \A k \in 1..Len(e) : DrillScript[Len(abcd) + k] = e[k]
    BY <2>7, <1>13, ConcatIs
  <2>9. Len(abcd) = 21 /\ Len(e) = 2
    BY <1>9, <1>12
  <2>10. \A n \in 1..21 : DrillScript[n] = abcd[n]
    BY <2>8, <2>9
  <2>11. DrillScript[21 + 1] = e[1] /\ DrillScript[21 + 2] = e[2]
    BY <2>1, <2>8, <2>9
  <2>12. Len(DrillScript) = 23
    BY <2>8, <2>9
  <2> QED BY <2>1, <2>8, <2>10, <2>11, <2>12
<1>15. \A n \in 1..13 : DrillScript[n] = abc[n]
  <2>1. \A n \in 1..13 : n \in 1..21
    OBVIOUS
  <2> QED BY <1>12, <1>14, <2>1
<1>16. \A n \in 1..12 : DrillScript[n] = ab[n]
  <2>1. \A n \in 1..12 : n \in 1..13
    OBVIOUS
  <2> QED BY <1>11, <1>15, <2>1
<1>17. \A n \in 1..8 : 4 + n \in 1..12 /\ 13 + n \in 1..21
  OBVIOUS
<1>18. DrillScript[13] = c[1]
  BY <1>11, <1>15
<1>19. 1 \in 1..4 /\ 2 \in 1..4 /\ 3 \in 1..4 /\ 4 \in 1..4
  OBVIOUS
<1>20. \A n \in 1..4 : DrillScript[n] = a[n]
  BY <1>10, <1>16
<1>21. \A n \in 1..8 : DrillScript[4 + n] = b[n]
  BY <1>10, <1>16, <1>17
<1>22. \A n \in 1..8 : DrillScript[13 + n] = d[n]
  BY <1>12, <1>14, <1>17
<1> QED BY <1>5, <1>6, <1>7, <1>8, <1>9, <1>14, <1>18, <1>19, <1>20, <1>21, <1>22

-----------------------------------------------------------------------------
(* Where a script is *)

LEMMA Nonempty == ASSUME NEW S, NEW s \in Seq(S), Len(s) # 0 PROVE s # <<>>
BY EmptySeq

(* The rest of a script. *)
LEMMA RestIs == ASSUME NEW s \in Seq(Item), NEW l \in Nat, Len(s) = l, NEW m \in 1..l
                PROVE  /\ SubSeq(s, m, l) \in Seq(Item) /\ SubSeq(s, m, l) # <<>>
                       /\ Len(SubSeq(s, m, l)) = l + 1 - m
                       /\ Head(SubSeq(s, m, l)) = s[m] /\ Tail(SubSeq(s, m, l)) = SubSeq(s, m + 1, l)
                       /\ \A k \in 1..(l + 1 - m) : SubSeq(s, m, l)[k] = s[m + k - 1]
<1>1. m \in Int /\ l \in Int /\ m \in 1..Len(s) /\ l \in m..Len(s)
  OBVIOUS
<1>2. Head(SubSeq(s, m, l)) = s[m] /\ Tail(SubSeq(s, m, l)) = SubSeq(s, m + 1, l)
  BY <1>1, HeadTailOfSubSeq
<1>3. \A k \in m..l : s[k] \in Item
  <2>1. \A k \in m..l : k \in 1..Len(s)
    OBVIOUS
  <2> QED BY <2>1, ElementOfSeq
<1>4. /\ SubSeq(s, m, l) \in Seq(Item)
      /\ Len(SubSeq(s, m, l)) = IF m <= l THEN l - m + 1 ELSE 0
      /\ \A k \in 1..(l - m + 1) : SubSeq(s, m, l)[k] = s[m + k - 1]
  BY <1>1, <1>3, SubSeqProperties
<1> DEFINE r == SubSeq(s, m, l)
<1>5. Len(r) = l + 1 - m /\ \A k \in 1..(l + 1 - m) : r[k] = s[m + k - 1]
  <2>1. m <= l /\ l - m + 1 = l + 1 - m
    OBVIOUS
  <2> QED BY <1>4, <2>1
<1>6. r \in Seq(Item)
  BY <1>4
<1> HIDE DEF r
<1>7. Len(r) # 0
  BY <1>5
<1>8. r # <<>>
  BY <1>6, <1>7, Nonempty
<1> QED BY <1>2, <1>5, <1>6, <1>8 DEF r

LEMMA HandoffMoves == ASSUME NEW m \in 1..2, AtHandoff(m)
                      PROVE  /\ todo # <<>> /\ Head(todo) = Steps(HandoffScript)[m]
                             /\ Tail(todo) = SubSeq(Steps(HandoffScript), m + 1, 2)
<1>1. m \in 1..2 /\ 2 \in Nat
  OBVIOUS
<1> QED BY <1>1, HandoffIs, RestIs DEF AtHandoff

LEMMA DrillMoves == ASSUME NEW m \in 1..23, AtDrill(m)
                    PROVE  /\ todo # <<>> /\ Head(todo) = DrillScript[m]
                           /\ Tail(todo) = SubSeq(DrillScript, m + 1, 23)
                           /\ Len(todo) = 24 - m
                           /\ \A n \in m..23 : 1 + n - m \in 1..Len(todo) /\ todo[1 + n - m] = DrillScript[n]
                           /\ \A n \in 1..Len(todo) : m + n - 1 \in m..23 /\ todo[n] = DrillScript[m + n - 1]
<1> DEFINE s == DrillScript
<1>1. s \in Seq(Item) /\ Len(s) = 23 /\ 23 \in Nat
  BY DrillIs
<1> HIDE DEF s
<1>2. todo = SubSeq(s, m, 23)
  BY DEF AtDrill, s
<1>3. /\ todo # <<>> /\ Head(todo) = s[m] /\ Tail(todo) = SubSeq(s, m + 1, 23)
      /\ Len(todo) = 23 + 1 - m /\ \A k \in 1..(23 + 1 - m) : todo[k] = s[m + k - 1]
  BY <1>1, <1>2, RestIs
<1>4. 23 + 1 - m = 24 - m
  OBVIOUS
<1>7. Len(todo) = 24 - m /\ \A k \in 1..(24 - m) : todo[k] = s[m + k - 1]
  BY <1>3, <1>4
<1>9. ASSUME NEW n \in m..23
      PROVE  1 + n - m \in 1..Len(todo) /\ todo[1 + n - m] = s[n]
  <2>1. 1 + n - m \in 1..(24 - m) /\ m + (1 + n - m) - 1 = n
    OBVIOUS
  <2>2. todo[1 + n - m] = s[m + (1 + n - m) - 1]
    BY <1>7, <2>1
  <2> QED BY <1>7, <2>1, <2>2
<1>10. ASSUME NEW n \in 1..Len(todo)
       PROVE  m + n - 1 \in m..23 /\ todo[n] = s[m + n - 1]
  <2>1. n \in 1..(24 - m)
    BY <1>7
  <2> QED BY <1>7, <2>1
<1> QED BY <1>3, <1>7, <1>9, <1>10 DEF s

LEMMA HeadTailOfConcat == ASSUME NEW S, NEW s \in Seq(S), NEW t \in Seq(S), s # <<>>
                          PROVE  /\ s \o t # <<>> /\ Head(s \o t) = Head(s)
                                 /\ Tail(s \o t) = Tail(s) \o t
<1> DEFINE u == s \o t
           r == Tail(s)
           v == r \o t
           w == Tail(u)
<1>1. /\ u \in Seq(S) /\ Len(u) = Len(s) + Len(t)
      /\ (\A k \in 1..Len(s) : u[k] = s[k]) /\ \A k \in 1..Len(t) : u[Len(s) + k] = t[k]
  BY ConcatIs
<1>2. Len(s) \in Nat \ {0} /\ Len(t) \in Nat
  OBVIOUS
<1> HIDE DEF u
<1>3. u # <<>> /\ Head(u) = Head(s)
  BY <1>1, <1>2
<1>4. r \in Seq(S) /\ Len(r) = Len(s) - 1 /\ \A k \in 1..Len(r) : r[k] = s[k + 1]
  BY HeadTailProperties
<1>5. w \in Seq(S) /\ Len(w) = Len(u) - 1 /\ \A k \in 1..Len(w) : w[k] = u[k + 1]
  BY <1>1, <1>3, HeadTailProperties
<1> HIDE DEF r, w
<1>6. /\ v \in Seq(S) /\ Len(v) = Len(r) + Len(t)
      /\ (\A k \in 1..Len(r) : v[k] = r[k]) /\ \A k \in 1..Len(t) : v[Len(r) + k] = t[k]
  <2>1. r \in Seq(S)
    BY <1>4
  <2> QED BY <2>1, ConcatIs
<1> HIDE DEF v
<1>7. Len(v) = Len(w)
  BY <1>1, <1>2, <1>4, <1>5, <1>6
<1>8. ASSUME NEW k \in 1..Len(w) PROVE w[k] = v[k]
  <2>1. CASE k \in 1..Len(r)
    <3>1. k + 1 \in 1..Len(s)
      BY <1>2, <1>4, <2>1
    <3> QED BY <1>1, <1>4, <1>5, <1>6, <2>1, <3>1
  <2>2. CASE k \notin 1..Len(r)
    <3>1. PICK j \in Nat : j = k - Len(r)
      <4>1. Len(r) \in Nat /\ k \in Nat /\ k >= 1
        BY <1>1, <1>2, <1>4, <1>5
      <4> QED BY <4>1, <2>2
    <3>2. j \in 1..Len(t) /\ k = Len(r) + j /\ k + 1 = Len(s) + j
      BY <1>1, <1>2, <1>4, <1>5, <2>2, <3>1
    <3>3. w[k] = u[Len(s) + j]
      BY <1>5, <3>2
    <3> QED BY <1>1, <1>6, <3>2, <3>3
  <2> QED BY <2>1, <2>2
<1>9. w = v
  BY <1>5, <1>6, <1>7, <1>8, SeqEqual
<1> QED BY <1>3, <1>9 DEF u, v, w, r

LEMMA TailsAre == /\ Tail(Steps(HandoffScript)) = SubSeq(Steps(HandoffScript), 2, 2)
                  /\ Tail(DrillScript) = SubSeq(DrillScript, 2, 23)
                  /\ Tail(Steps(HandoffScript)) \in Seq(Item) /\ Tail(DrillScript) \in Seq(Item)
<1>1. Steps(HandoffScript) # <<>> /\ DrillScript # <<>>
  <2>1. Len(Steps(HandoffScript)) # 0 /\ Len(DrillScript) # 0
    BY HandoffIs, DrillIs
  <2> QED BY <2>1, HandoffIs, DrillIs, Nonempty
<1>2. Tail(Steps(HandoffScript)) = SubSeq(Steps(HandoffScript), 2, Len(Steps(HandoffScript)))
  BY <1>1, HandoffIs, TailIsSubSeq
<1>3. Tail(DrillScript) = SubSeq(DrillScript, 2, Len(DrillScript))
  BY <1>1, DrillIs, TailIsSubSeq
<1>4. Tail(Steps(HandoffScript)) \in Seq(Item) /\ Tail(DrillScript) \in Seq(Item)
  BY <1>1, HandoffIs, DrillIs, HeadTailProperties
<1> QED BY <1>2, <1>3, <1>4, HandoffIs, DrillIs

LEMMA BuildMoves ==
  ASSUME NEW m \in 1..12, AtBuild(m)
  PROVE  /\ todo # <<>> /\ Head(todo) = BuildScript[m]
         /\ \E script \in {Steps(HandoffScript), DrillScript} :
              Tail(todo) = IF m = 12 THEN Tail(script)
                           ELSE SubSeq(BuildScript, m + 1, 12) \o Tail(script)
<1> PICK script \in {Steps(HandoffScript), DrillScript} : todo = SubSeq(BuildScript, m, 12) \o Tail(script)
  BY DEF AtBuild
<1> DEFINE s == BuildScript
           r == SubSeq(s, m, 12)
           t == Tail(script)
<1>1. s \in Seq(Item) /\ Len(s) = 12
  BY BuildIs
<1>2. t \in Seq(Item)
  BY TailsAre
<1> HIDE DEF s, t
<1>4. Head(r) = s[m] /\ Tail(r) = SubSeq(s, m + 1, 12) /\ r \in Seq(Item) /\ r # <<>>
  <2>1. m \in 1..12 /\ 12 \in Nat
    OBVIOUS
  <2> QED BY <1>1, <2>1, RestIs
<1>8. todo = r \o t
  BY DEF s, t
<1> HIDE DEF r
<1>9. todo # <<>> /\ Head(todo) = s[m] /\ Tail(todo) = SubSeq(s, m + 1, 12) \o t
  <2>1. r \in Seq(Item) /\ t \in Seq(Item) /\ r # <<>>
    BY <1>2, <1>4
  <2>2. r \o t # <<>> /\ Head(r \o t) = Head(r) /\ Tail(r \o t) = Tail(r) \o t
    BY <2>1, HeadTailOfConcat
  <2> QED BY <1>4, <1>8, <2>2
<1>10. CASE m = 12
  <2>1. 13 \in Int /\ 12 \in Int /\ 12 < 13 /\ m + 1 = 13
    BY <1>10
  <2>2. SubSeq(s, 13, 12) = <<>>
    BY <2>1, SubSeqEmpty
  <2>3. <<>> \o t = t
    BY <1>2, ConcatEmptySeq
  <2>4. Tail(todo) = t
    BY <1>9, <2>1, <2>2, <2>3
  <2> QED BY <1>9, <1>10, <2>4 DEF s, t
<1>11. CASE m # 12
  BY <1>9, <1>11 DEF s, t
<1> QED BY <1>10, <1>11

(* The steps that the drill ends with are of the drill alone. *)
LEMMA LateSteps == ASSUME NEW m \in 4..23
                   PROVE  /\ DrillScript[m] # <<"step", "check">> /\ DrillScript[m] # <<"step", "package">>
                          /\ DrillScript[m] # <<"step", "ensure">> /\ DrillScript[m] # <<"step", "snapshot">>
                          /\ \A name \in Builds : DrillScript[m] # <<"step", name>>
<1>1. \/ m = 4 \/ m = 13 \/ m = 22 \/ m = 23
      \/ (\E n \in 1..8 : m = 4 + n) \/ (\E n \in 1..8 : m = 13 + n)
  <2>1. CASE m \in 5..12
    <3>1. m - 4 \in 1..8 /\ m = 4 + (m - 4)
      BY <2>1
    <3> QED BY <3>1
  <2>2. CASE m \in 14..21
    <3>1. m - 13 \in 1..8 /\ m = 13 + (m - 13)
      BY <2>2
    <3> QED BY <3>1
  <2>3. m \in 5..12 \/ m \in 14..21 \/ m = 4 \/ m = 13 \/ m = 22 \/ m = 23
    OBVIOUS
  <2> QED BY <2>1, <2>2, <2>3
<1>2. \/ DrillScript[m][1] \in {"previous", "current"}
      \/ \E name \in {"simulate", "observe", "report"} : DrillScript[m] = <<"step", name>>
  <2>1. ASSUME NEW n \in 1..8, m = 4 + n
        PROVE  DrillScript[m][1] \in {"previous", "current"}
    <3>1. DrillScript[m] = <<"previous", Files[n]>>
      BY <2>1, DrillIs
    <3> QED BY <3>1
  <2>2. ASSUME NEW n \in 1..8, m = 13 + n
        PROVE  DrillScript[m][1] \in {"previous", "current"}
    <3>1. DrillScript[m] = <<"current", Files[n]>>
      BY <2>2, DrillIs
    <3> QED BY <3>1
  <2>3. CASE m \in {4, 13, 22, 23}
    BY <2>3, DrillIs
  <2> QED BY <1>1, <2>1, <2>2, <2>3
<1>3. CASE DrillScript[m][1] \in {"previous", "current"}
  BY <1>3
<1>4. ASSUME NEW name \in {"simulate", "observe", "report"}, DrillScript[m] = <<"step", name>>
      PROVE  /\ name \notin Builds
             /\ name # "check" /\ name # "package" /\ name # "ensure" /\ name # "snapshot"
  BY <1>4 DEF Builds
<1> QED BY <1>2, <1>3, <1>4

(* A swap is a place of its own. *)
LEMMA SwapsApart == ASSUME NEW m \in 4..23, AtDrill(m)
                    PROVE  /\ todo # <<>> /\ Head(todo) = DrillScript[m]
                           /\ ~ Building /\ ~ At("package")
                           /\ \A n \in 1..24 : AtDrill(n) => n = m
                           /\ \A n \in 1..3 : ~ AtHandoff(n)
<1>1. /\ todo # <<>> /\ Head(todo) = DrillScript[m] /\ Len(todo) = 24 - m
  <2>1. m \in 1..23
    OBVIOUS
  <2> QED BY <2>1, DrillMoves
<1>2. ASSUME NEW n \in 1..12, AtBuild(n) PROVE FALSE
  <2>1. Head(todo) = BuildScript[n]
    BY <1>2, BuildMoves
  <2>2. CASE n = 12
    BY <1>1, <2>1, <2>2, BuildIs, LateSteps
  <2>3. CASE n \in 1..11
    <3>1. PICK name \in Builds : BuildScript[n] = <<"step", name>>
      BY <2>3, BuildIs
    <3> QED BY <1>1, <2>1, <3>1, LateSteps
  <2> QED BY <2>2, <2>3
<1>3. ~ At("package")
  BY <1>1, LateSteps DEF At
<1>4. ASSUME NEW n \in 1..24, AtDrill(n) PROVE n = m
  <2>1. CASE n \in 1..23
    <3>1. Len(todo) = 24 - n
      BY <1>4, <2>1, DrillMoves
    <3> QED BY <1>1, <2>1, <3>1
  <2>2. CASE n = 24
    <3>1. 24 \in Int /\ 23 \in Int /\ 23 < 24
      OBVIOUS
    <3>2. todo = <<>>
      BY <1>4, <2>2, <3>1, SubSeqEmpty DEF AtDrill
    <3> QED BY <1>1, <3>2
  <2> QED BY <2>1, <2>2
<1>5. ASSUME NEW n \in 1..3, AtHandoff(n) PROVE FALSE
  <2>1. CASE n \in 1..2
    <3>1. Head(todo) = Steps(HandoffScript)[n]
      BY <1>5, <2>1, HandoffMoves
    <3>2. n = 1 \/ n = 2
      BY <2>1
    <3> QED BY <1>1, <3>1, <3>2, HandoffIs, LateSteps
  <2>2. CASE n = 3
    <3>1. 3 \in Int /\ 2 \in Int /\ 2 < 3
      OBVIOUS
    <3>2. todo = <<>>
      BY <1>5, <2>2, <3>1, SubSeqEmpty DEF AtHandoff
    <3> QED BY <1>1, <3>2
  <2> QED BY <2>1, <2>2
<1> QED BY <1>1, <1>2, <1>3, <1>4, <1>5 DEF Building

(* Nothing is left. *)
LEMMA NothingLeft == ASSUME todo = <<>>
                     PROVE  /\ AtHandoff(3) /\ AtDrill(24) /\ ~ Building /\ ~ Swapping
                            /\ \A name : ~ At(name)
<1>1. AtHandoff(3) /\ AtDrill(24)
  <2>1. 3 \in Int /\ 2 \in Int /\ 2 < 3 /\ 24 \in Int /\ 23 \in Int /\ 23 < 24
    OBVIOUS
  <2> QED BY <2>1, SubSeqEmpty DEF AtHandoff, AtDrill
<1>2. ~ Building
  BY BuildMoves DEF Building
<1>3. ~ Swapping
  BY SwapsApart DEF Swapping
<1> QED BY <1>1, <1>2, <1>3 DEF At

(* The step that comes next says where the script is. *)
LEMMA WhereAt ==
  ASSUME Placed, todo # <<>>
  PROVE  \/ Head(todo) = <<"step", "ensure">> /\ (AtHandoff(1) \/ AtDrill(1))
         \/ Head(todo) = <<"step", "package">> /\ (AtHandoff(2) \/ AtDrill(2))
         \/ Head(todo) = <<"step", "snapshot">> /\ AtDrill(3)
         \/ Head(todo) = <<"step", "simulate">> /\ AtDrill(4)
         \/ Head(todo) = <<"step", "observe">> /\ (AtDrill(13) \/ AtDrill(22))
         \/ Head(todo) = <<"step", "report">> /\ AtDrill(23)
         \/ \E n \in 1..8 : Head(todo) = <<"previous", Files[n]>> /\ AtDrill(4 + n)
         \/ \E n \in 1..8 : Head(todo) = <<"current", Files[n]>> /\ AtDrill(13 + n)
         \/ Head(todo) = <<"step", "check">> /\ AtBuild(12)
         \/ \E n \in 1..11, name \in Builds : Head(todo) = <<"step", name>> /\ AtBuild(n)
<1>1. CASE Building
  <2>1. PICK n \in 1..12 : AtBuild(n)
    BY <1>1 DEF Building
  <2>2. Head(todo) = BuildScript[n]
    BY <2>1, BuildMoves
  <2>3. CASE n = 12
    BY <2>1, <2>2, <2>3, BuildIs
  <2>4. CASE n \in 1..11
    <3>1. \E name \in Builds : BuildScript[n] = <<"step", name>>
      BY <2>4, BuildIs
    <3> QED BY <2>1, <2>2, <2>4, <3>1
  <2> QED BY <2>3, <2>4
<1>2. ASSUME NEW n \in 1..3, AtHandoff(n)
      PROVE  \/ Head(todo) = <<"step", "ensure">> /\ AtHandoff(1)
             \/ Head(todo) = <<"step", "package">> /\ AtHandoff(2)
  <2>1. n # 3
    <3>1. 3 \in Int /\ 2 \in Int /\ 2 < 3
      OBVIOUS
    <3> QED BY <1>2, <3>1, SubSeqEmpty DEF AtHandoff
  <2>2. n = 1 \/ n = 2
    BY <2>1
  <2> QED BY <1>2, <2>2, HandoffIs, HandoffMoves
<1>3. ASSUME NEW n \in 1..24, AtDrill(n)
      PROVE  \/ Head(todo) = <<"step", "ensure">> /\ AtDrill(1)
             \/ Head(todo) = <<"step", "package">> /\ AtDrill(2)
             \/ Head(todo) = <<"step", "snapshot">> /\ AtDrill(3)
             \/ Head(todo) = <<"step", "simulate">> /\ AtDrill(4)
             \/ Head(todo) = <<"step", "observe">> /\ (AtDrill(13) \/ AtDrill(22))
             \/ Head(todo) = <<"step", "report">> /\ AtDrill(23)
             \/ \E k \in 1..8 : Head(todo) = <<"previous", Files[k]>> /\ AtDrill(4 + k)
             \/ \E k \in 1..8 : Head(todo) = <<"current", Files[k]>> /\ AtDrill(13 + k)
  <2>1. n # 24
    <3>1. 24 \in Int /\ 23 \in Int /\ 23 < 24
      OBVIOUS
    <3> QED BY <1>3, <3>1, SubSeqEmpty DEF AtDrill
  <2>2. n \in 1..23 /\ Head(todo) = DrillScript[n]
    <3>1. n \in 1..23
      BY <2>1
    <3> QED BY <1>3, <3>1, DrillMoves
  <2>3. CASE n \in 5..12
    <3>1. PICK k \in 1..8 : n = 4 + k
      <4>1. n - 4 \in 1..8 /\ n = 4 + (n - 4)
        BY <2>3
      <4> QED BY <4>1
    <3> QED BY <1>3, <2>2, <3>1, DrillIs
  <2>4. CASE n \in 14..21
    <3>1. PICK k \in 1..8 : n = 13 + k
      <4>1. n - 13 \in 1..8 /\ n = 13 + (n - 13)
        BY <2>4
      <4> QED BY <4>1
    <3> QED BY <1>3, <2>2, <3>1, DrillIs
  <2>5. CASE n \in {1, 2, 3, 4, 13, 22, 23}
    BY <1>3, <2>2, <2>5, DrillIs
  <2>6. n \in 5..12 \/ n \in 14..21 \/ n \in {1, 2, 3, 4, 13, 22, 23}
    BY <2>2
  <2> QED BY <2>3, <2>4, <2>5, <2>6
<1> QED BY <1>1, <1>2, <1>3 DEF Placed

-----------------------------------------------------------------------------
(* What each place asks for *)

LEMMA Places ==
  /\ \A m \in 4..23 : AtDrill(m) =>
       /\ todo # <<>> /\ Placed /\ Swapping /\ ~ Building /\ ~ At("package")
       /\ \A n \in 4..23 : AtDrill(n) => n = m
  /\ todo = <<>> \/ AtHandoff(1) \/ AtDrill(1) \/ AtDrill(3) =>
       Placed /\ ~ Swapping /\ ~ Building /\ ~ At("package")
  /\ Building => Placed /\ ~ Swapping /\ ~ At("package")
  /\ AtHandoff(2) \/ AtDrill(2) => Placed /\ ~ Swapping /\ ~ Building
<1>1. ASSUME NEW m \in 4..23, AtDrill(m)
      PROVE  /\ todo # <<>> /\ Placed /\ Swapping /\ ~ Building /\ ~ At("package")
             /\ \A n \in 4..23 : AtDrill(n) => n = m
  <2>1. todo # <<>> /\ ~ Building /\ ~ At("package")
    BY <1>1, SwapsApart
  <2>2. m \in 1..24 /\ \A n \in 4..23 : n \in 1..24
    OBVIOUS
  <2>3. \A n \in 4..23 : AtDrill(n) => n = m
    BY <1>1, <2>2, SwapsApart
  <2> QED BY <1>1, <2>1, <2>2, <2>3 DEF Placed, Swapping
<1>2. ASSUME NEW m \in 1..12, AtBuild(m)
      PROVE  \/ Head(todo) = <<"step", "check">>
             \/ \E name \in Builds : Head(todo) = <<"step", name>>
  <2>1. Head(todo) = BuildScript[m]
    BY <1>2, BuildMoves
  <2>2. m = 12 \/ m \in 1..11
    OBVIOUS
  <2> QED BY <2>1, <2>2, BuildIs
<1>3. Building => Placed /\ ~ Swapping /\ ~ At("package")
  <2>1. Building => ~ Swapping
    BY <1>1 DEF Swapping
  <2>2. Building => ~ At("package")
    BY <1>2 DEF Building, At, Builds
  <2> QED BY <2>1, <2>2 DEF Placed
<1>4. ASSUME NEW name \in {"ensure", "package", "snapshot"}, Head(todo) = <<"step", name>>
      PROVE  ~ Building
  <2>1. name # "check" /\ name \notin Builds
    BY DEF Builds
  <2> QED BY <1>2, <1>4, <2>1 DEF Building
<1>5. ASSUME AtHandoff(1) \/ AtDrill(1)
      PROVE  Head(todo) = <<"step", "ensure">> /\ Placed /\ ~ Swapping
  <2>1. 1 \in 1..2 /\ 1 \in 1..23 /\ 1 \in 1..3 /\ 1 \in 1..24
    OBVIOUS
  <2>2. Head(todo) = <<"step", "ensure">> /\ Placed
    BY <1>5, <2>1, HandoffMoves, DrillMoves, HandoffIs, DrillIs DEF Placed
  <2> QED BY <2>2, SwapsApart, LateSteps DEF Swapping
<1>6. ASSUME AtHandoff(2) \/ AtDrill(2)
      PROVE  Head(todo) = <<"step", "package">> /\ Placed /\ ~ Swapping
  <2>1. 2 \in 1..2 /\ 2 \in 1..23 /\ 2 \in 1..3 /\ 2 \in 1..24
    OBVIOUS
  <2>2. Head(todo) = <<"step", "package">> /\ Placed
    BY <1>6, <2>1, HandoffMoves, DrillMoves, HandoffIs, DrillIs DEF Placed
  <2> QED BY <2>2, SwapsApart, LateSteps DEF Swapping
<1>7. ASSUME AtDrill(3)
      PROVE  Head(todo) = <<"step", "snapshot">> /\ Placed /\ ~ Swapping
  <2>1. 3 \in 1..23 /\ 3 \in 1..24
    OBVIOUS
  <2>2. Head(todo) = <<"step", "snapshot">> /\ Placed
    BY <1>7, <2>1, DrillMoves, DrillIs DEF Placed
  <2> QED BY <2>2, SwapsApart, LateSteps DEF Swapping
<1>8. ASSUME todo = <<>>
      PROVE  Placed /\ ~ Swapping /\ ~ Building /\ ~ At("package")
  <2>1. 3 \in 1..3
    OBVIOUS
  <2> QED BY <1>8, <2>1, NothingLeft DEF Placed
<1>9. AtHandoff(1) \/ AtDrill(1) \/ AtDrill(3) => ~ At("package")
  BY <1>5, <1>7 DEF At
<1> QED BY <1>1, <1>3, <1>4, <1>5, <1>6, <1>7, <1>8, <1>9

Sound == Named(dist) /\ Named(before) /\ (package # <<>> => PackageFits(package))

(* The places a step may come to, and what has to be true there. *)
Resting   == /\ todo = <<>> \/ AtHandoff(1) \/ AtDrill(1) \/ AtDrill(3)
             /\ ~ swapped => Clean(dist)
Rebuilt   == Building /\ Allowed /\ (~ swapped => Clean(dist))
Packaging == /\ AtHandoff(2) \/ AtDrill(2)
             /\ Allowed /\ Complete(dist) /\ Agree(dist)
             /\ ~ swapped => Clean(dist)
Swapped   == \E m \in 4..23 : AtDrill(m) /\ ToBeRestored(m) /\ (~ swapped => Clean(before))

LEMMA Reached == Sound /\ (Resting \/ Rebuilt \/ Packaging \/ Swapped) => ReleaseInv
<1> SUFFICES ASSUME Sound, Resting \/ Rebuilt \/ Packaging \/ Swapped
             PROVE  ReleaseInv
  OBVIOUS
<1>1. ASSUME ~ Swapping PROVE \A m \in 4..23 : ~ AtDrill(m)
  BY <1>1 DEF Swapping
<1>2. CASE Resting
  <2>1. Placed /\ ~ Swapping /\ ~ Building /\ ~ At("package")
    BY <1>2, Places DEF Resting
  <2> QED BY <1>1, <1>2, <2>1 DEF ReleaseInv, Sound, Resting
<1>3. CASE Rebuilt
  <2>1. Placed /\ ~ Swapping /\ ~ At("package")
    BY <1>3, Places DEF Rebuilt
  <2> QED BY <1>1, <1>3, <2>1 DEF ReleaseInv, Sound, Rebuilt
<1>4. CASE Packaging
  <2>1. Placed /\ ~ Swapping
    BY <1>4, Places DEF Packaging
  <2> QED BY <1>1, <1>4, <2>1 DEF ReleaseInv, Sound, Packaging
<1>5. CASE Swapped
  <2> PICK m \in 4..23 : AtDrill(m) /\ ToBeRestored(m) /\ (~ swapped => Clean(before))
    BY <1>5 DEF Swapped
  <2>1. /\ Placed /\ Swapping /\ ~ Building /\ ~ At("package")
        /\ \A n \in 4..23 : AtDrill(n) => n = m
    BY Places
  <2>2. \A n \in 4..23 : AtDrill(n) => ToBeRestored(n)
    BY <2>1
  <2> QED BY <2>1, <2>2 DEF ReleaseInv, Sound
<1> QED BY <1>2, <1>3, <1>4, <1>5

-----------------------------------------------------------------------------
(* The steps *)

(* What comes next, after a step of the handoff, of the drill, of a build. *)
LEMMA HandoffGoesOn == ASSUME NEW m \in 1..2, AtHandoff(m), todo' = Tail(todo) PROVE AtHandoff(m + 1)'
BY HandoffMoves DEF AtHandoff

LEMMA DrillGoesOn == ASSUME NEW m \in 1..23, AtDrill(m), todo' = Tail(todo) PROVE AtDrill(m + 1)'
BY DrillMoves DEF AtDrill

LEMMA BuildGoesOn == ASSUME NEW m \in 1..11, AtBuild(m), todo' = Tail(todo) PROVE Building'
<1>1. m \in 1..12 /\ m # 12 /\ m + 1 \in 1..12
  OBVIOUS
<1>2. PICK script \in {Steps(HandoffScript), DrillScript} :
        Tail(todo) = SubSeq(BuildScript, m + 1, 12) \o Tail(script)
  BY <1>1, BuildMoves
<1>3. AtBuild(m + 1)'
  BY <1>2 DEF AtBuild
<1> QED BY <1>1, <1>3 DEF Building

LEMMA BuildEnds == ASSUME AtBuild(12), todo' = Tail(todo) PROVE AtHandoff(2)' \/ AtDrill(2)'
<1>1. 12 \in 1..12
  OBVIOUS
<1>2. PICK script \in {Steps(HandoffScript), DrillScript} : Tail(todo) = Tail(script)
  BY <1>1, BuildMoves
<1> QED BY <1>2, TailsAre DEF AtHandoff, AtDrill

LEMMA HandoffEnds == ASSUME AtHandoff(2), todo' = Tail(todo) PROVE todo' = <<>>
<1>1. 2 \in 1..2 /\ 2 + 1 = 3 /\ 3 \in Int /\ 2 \in Int /\ 2 < 3
  OBVIOUS
<1>2. Tail(todo) = SubSeq(Steps(HandoffScript), 3, 2)
  BY <1>1, HandoffMoves
<1> QED BY <1>1, <1>2, SubSeqEmpty

LEMMA DrillEnds == ASSUME AtDrill(23), todo' = Tail(todo) PROVE todo' = <<>>
<1>1. 23 \in 1..23 /\ 23 + 1 = 24 /\ 24 \in Int /\ 23 \in Int /\ 23 < 24
  OBVIOUS
<1>2. Tail(todo) = SubSeq(DrillScript, 24, 23)
  BY <1>1, DrillMoves
<1> QED BY <1>1, <1>2, SubSeqEmpty

(* A build writes a summary of its own, and no other. *)
LEMMA WrittenSummary ==
  ASSUME NEW name \in Builds, NEW signs \in BOOLEAN
  PROVE  LET d == Overwritten(dist, Written(name, signs))
         IN  /\ Named(d)
             /\ name = "clear" => d.summary = Absent
             /\ name = "summary" => d.summary = <<bundles, 0>>
             /\ name \notin {"clear", "summary"} => d.summary = dist.summary
<1> DEFINE w == Written(name, signs)
<1>1. "summary" \in File /\ "summary" \notin {"sbom", "provenance"}
  BY FilesAre
<1>2. CASE name = "clear"
  <2>1. w = [f \in File \ {"sbom", "provenance"} |-> Absent]
    BY <1>2, Zenon DEF Written
  <2> QED BY <1>1, <1>2, <2>1 DEF Overwritten, Named
<1>3. CASE name = "summary"
  <2>1. w = [summary |-> <<bundles, 0>>]
    BY <1>3, Zenon DEF Written
  <2> QED BY <1>1, <1>3, <2>1 DEF Overwritten, Named
<1>4. CASE name \notin {"clear", "summary"}
  <2>1. "summary" \notin DOMAIN w
    <3>1. CASE name = "tarball"
      <4>1. w = [tarball |-> <<sources>>]
        BY <3>1, Zenon DEF Written
      <4> QED BY <4>1
    <3>2. CASE name = "sha"
      <4>1. w = [sha |-> dist.tarball]
        BY <3>2, Zenon DEF Written
      <4> QED BY <4>1
    <3>3. CASE name = "manifest"
      <4>1. w = [manifest |-> <<dist.tarball, dist.sha, Absent>>]
        BY <3>3, Zenon DEF Written
      <4> QED BY <4>1
    <3>4. CASE name = "entry"
      <4>1. w = [manifest |-> [dist.manifest EXCEPT ![3] = dist.summary]]
        BY <3>4, Zenon DEF Written
      <4> QED BY <4>1
    <3>5. CASE name = "status"
      <4>1. w = IF signs THEN [signatures |-> <<"signatures">>, status |-> <<"enabled">>]
                ELSE [status |-> <<"unavailable">>]
        BY <3>5, Zenon DEF Written
      <4> QED BY <4>1
    <3>6. CASE name = "sbom"
      <4>1. w = [sbom |-> <<"sbom">>]
        BY <3>6, Zenon DEF Written
      <4> QED BY <4>1
    <3>7. CASE name = "provenance"
      <4>1. w = [provenance |-> dist.tarball]
        BY <3>7, Zenon DEF Written
      <4> QED BY <4>1
    <3>8. CASE name = "waiver"
      <4>1. w = IF dist.status = <<"enabled">> THEN <<>> ELSE [waiver |-> <<"waiver">>]
        BY <3>8, Zenon DEF Written
      <4>2. DOMAIN <<>> = {}
        OBVIOUS
      <4> QED BY <4>1, <4>2
    <3> QED BY <1>4, <3>1, <3>2, <3>3, <3>4, <3>5, <3>6, <3>7, <3>8 DEF Builds
  <2> QED BY <1>1, <1>4, <2>1 DEF Overwritten, Named
<1> QED BY <1>2, <1>3, <1>4

LEMMA BuildNames == ASSUME NEW name \in ToSet(BundleScript \o SupplyScript) PROVE name \in Builds
<1> DEFINE s == BundleScript \o SupplyScript
<1>1. BundleScript \in Seq(Builds) /\ SupplyScript \in Seq(Builds)
  BY DEF BundleScript, SupplyScript, Builds
<1>2. s \in Seq(Builds)
  BY <1>1, ConcatProperties
<1> HIDE DEF s
<1>3. \A n \in DOMAIN s : s[n] \in Builds
  BY <1>2, LenProperties, ElementOfSeq
<1>4. name \in {s[n] : n \in DOMAIN s}
  BY DEF ToSet, s
<1> QED BY <1>3, <1>4

LEMMA ReachedNext == (Sound /\ (Resting \/ Rebuilt \/ Packaging \/ Swapped))' => ReleaseInv'
BY Reached, PTL

LEMMA InvSound == ReleaseInv => Sound
BY DEF ReleaseInv, Sound

(* Out of a swap the files are those of a build, unless a drill was cut off. *)
LEMMA InvClean == ReleaseInv /\ ~ Swapping => (~ swapped => Clean(dist))
BY DEF ReleaseInv

(* Whatever a step makes of todo, if it leaves the files alone. *)
SameFiles == UNCHANGED <<dist, before, package>>

LEMMA SameSound == ASSUME Sound, SameFiles PROVE Sound'
BY DEF Sound, SameFiles, Named, PackageFits, Complete, Agree

LEMMA StartKeeps == ASSUME ReleaseInv, NEW script \in {Steps(HandoffScript), DrillScript}, StartScript(script)
                    PROVE  ReleaseInv'
<1>1. todo = <<>> /\ todo' = script /\ SameFiles /\ UNCHANGED swapped
  BY DEF StartScript, SameFiles
<1>2. ~ Swapping
  BY <1>1, NothingLeft
<1>3. SubSeq(Steps(HandoffScript), 1, 2) = Steps(HandoffScript) /\ SubSeq(DrillScript, 1, 23) = DrillScript
  <2>1. SubSeq(Steps(HandoffScript), 1, Len(Steps(HandoffScript))) = Steps(HandoffScript)
    BY HandoffIs, SubSeqFull
  <2>2. SubSeq(DrillScript, 1, Len(DrillScript)) = DrillScript
    BY DrillIs, SubSeqFull
  <2> QED BY <2>1, <2>2, HandoffIs, DrillIs
<1>4. AtHandoff(1)' \/ AtDrill(1)'
  BY <1>1, <1>3 DEF AtHandoff, AtDrill
<1>5. ~ swapped' => Clean(dist')
  BY <1>1, <1>2, InvClean DEF SameFiles
<1> QED BY <1>1, <1>4, <1>5, InvSound, SameSound, ReachedNext DEF Resting

LEMMA SkipKeeps == ASSUME ReleaseInv, SkipDrill PROVE ReleaseInv'
<1>1. todo = <<>> /\ todo' = <<>> /\ SameFiles /\ UNCHANGED swapped
  BY DEF SkipDrill, SameFiles
<1>2. ~ Swapping
  BY <1>1, NothingLeft
<1>3. ~ swapped' => Clean(dist')
  BY <1>1, <1>2, InvClean DEF SameFiles
<1> QED BY <1>1, <1>3, InvSound, SameSound, ReachedNext DEF Resting

LEMMA WriteKeeps == ASSUME ReleaseInv, NEW signs \in BOOLEAN, Write(signs) PROVE ReleaseInv'
<1> PICK name \in ToSet(BundleScript \o SupplyScript) :
      /\ At(name)
      /\ dist' = Overwritten(dist, Written(name, signs))
      /\ swapped' = (swapped /\ name # "clear")
      /\ todo' = Tail(todo)
      /\ UNCHANGED <<policy, package, before>>
  BY DEF Write
<1>1. name \in Builds
  BY BuildNames
<1>2. PICK n \in 1..11 : AtBuild(n)
  <2>1. name \notin {"ensure", "package", "snapshot", "simulate", "observe", "report", "check"}
    BY <1>1 DEF Builds
  <2>2. todo # <<>> /\ Head(todo) = <<"step", name>> /\ Placed
    BY DEF At, ReleaseInv
  <2> QED BY <2>1, <2>2, WhereAt
<1>3. Building
  <2>1. n \in 1..12
    OBVIOUS
  <2> QED BY <1>2, <2>1 DEF Building
<1>4. ~ Swapping /\ Allowed
  BY <1>3, Places DEF ReleaseInv
<1>5. Building'
  BY <1>2, BuildGoesOn
<1>6. /\ Named(dist')
      /\ name = "clear" => dist'.summary = Absent
      /\ name = "summary" => dist'.summary = <<bundles, 0>>
      /\ name \notin {"clear", "summary"} => dist'.summary = dist.summary
  BY <1>1, WrittenSummary
<1>7. ~ swapped' => Clean(dist')
  <2>1. CASE name = "clear"
    BY <1>6, <2>1 DEF Clean
  <2>2. CASE name = "summary"
    <3>1. dist'.summary[2] = 0
      BY <1>6, <2>2
    <3> QED BY <3>1 DEF Clean
  <2>3. CASE name \notin {"clear", "summary"}
    BY <1>4, <1>6, <2>3, InvClean DEF Clean
  <2> QED BY <2>1, <2>2, <2>3
<1>8. Sound'
  BY <1>6, InvSound DEF Sound, Named, PackageFits, Complete, Agree
<1>9. Allowed'
  BY <1>4 DEF Allowed
<1> QED BY <1>5, <1>7, <1>8, <1>9, ReachedNext DEF Rebuilt

LEMMA CheckKeeps == ASSUME ReleaseInv, Check PROVE ReleaseInv'
<1>1. At("check") /\ SameFiles /\ UNCHANGED <<swapped, policy>>
  BY DEF Check, SameFiles
<1>2. AtBuild(12)
  <2>1. todo # <<>> /\ Head(todo) = <<"step", "check">> /\ Placed
    BY <1>1 DEF At, ReleaseInv
  <2>2. "check" \notin Builds
    BY DEF Builds
  <2> QED BY <2>1, <2>2, WhereAt
<1>3. Building
  <2>1. 12 \in 1..12
    OBVIOUS
  <2> QED BY <1>2, <2>1 DEF Building
<1>4. ~ Swapping /\ Allowed
  BY <1>3, Places DEF ReleaseInv
<1>5. ~ swapped' => Clean(dist')
  BY <1>1, <1>4, InvClean DEF SameFiles
<1>6. CASE Verify(dist)
  <2>1. AtHandoff(2)' \/ AtDrill(2)'
    BY <1>2, <1>6, BuildEnds DEF Check
  <2>2. Complete(dist) /\ Agree(dist)
    BY <1>6, FilesAre DEF Verify, Complete
  <2>3. Complete(dist)' /\ Agree(dist)' /\ Allowed'
    BY <1>1, <1>4, <2>2 DEF SameFiles, Complete, Agree, Allowed
  <2> QED BY <1>1, <1>5, <2>1, <2>3, InvSound, SameSound, ReachedNext DEF Packaging
<1>7. CASE ~ Verify(dist)
  <2>1. todo' = <<>>
    BY <1>7 DEF Check, Fail
  <2> QED BY <1>1, <1>5, <2>1, InvSound, SameSound, ReachedNext DEF Resting
<1> QED BY <1>6, <1>7

LEMMA EnsureKeeps == ASSUME ReleaseInv, Ensure PROVE ReleaseInv'
<1>1. At("ensure") /\ SameFiles /\ UNCHANGED <<swapped, policy>>
  BY DEF Ensure, SameFiles
<1>2. AtHandoff(1) \/ AtDrill(1)
  <2>1. todo # <<>> /\ Head(todo) = <<"step", "ensure">> /\ Placed
    BY <1>1 DEF At, ReleaseInv
  <2>2. "ensure" \notin Builds
    BY DEF Builds
  <2> QED BY <2>1, <2>2, WhereAt
<1>3. ~ swapped' => Clean(dist')
  BY <1>1, <1>2, Places, InvClean DEF SameFiles
<1>4. /\ AtHandoff(1) => Tail(todo) = Tail(Steps(HandoffScript))
      /\ AtDrill(1) => Tail(todo) = Tail(DrillScript)
  <2>1. SubSeq(Steps(HandoffScript), 1, Len(Steps(HandoffScript))) = Steps(HandoffScript)
    BY HandoffIs, SubSeqFull
  <2>2. SubSeq(DrillScript, 1, Len(DrillScript)) = DrillScript
    BY DrillIs, SubSeqFull
  <2> QED BY <2>1, <2>2, HandoffIs, DrillIs DEF AtHandoff, AtDrill
<1>5. PICK script \in {Steps(HandoffScript), DrillScript} : Tail(todo) = Tail(script)
  BY <1>2, <1>4
<1>6. CASE ~ Allowed
  <2>1. todo' = <<>>
    BY <1>6 DEF Ensure, Fail
  <2> QED BY <1>1, <1>3, <2>1, InvSound, SameSound, ReachedNext DEF Resting
<1>7. CASE Allowed /\ Complete(dist) /\ Verify(dist)
  <2>1. todo' = <<>> \o Tail(script)
    BY <1>5, <1>7 DEF Ensure
  <2>2. todo' = Tail(script)
    BY <2>1, TailsAre, ConcatEmptySeq
  <2>3. AtHandoff(2)' \/ AtDrill(2)'
    BY <2>2, TailsAre DEF AtHandoff, AtDrill
  <2>4. Complete(dist)' /\ Agree(dist)' /\ Allowed'
    BY <1>1, <1>7 DEF SameFiles, Complete, Agree, Allowed, Verify
  <2> QED BY <1>1, <1>3, <2>3, <2>4, InvSound, SameSound, ReachedNext DEF Packaging
<1>8. CASE Allowed /\ ~ (Complete(dist) /\ Verify(dist))
  <2>1. todo' = BuildScript \o Tail(script)
    BY <1>5, <1>8 DEF Ensure
  <2>2. SubSeq(BuildScript, 1, Len(BuildScript)) = BuildScript
    BY BuildIs, SubSeqFull
  <2>3. AtBuild(1)'
    BY <2>1, <2>2, BuildIs DEF AtBuild
  <2>4. 1 \in 1..12
    OBVIOUS
  <2>5. Building'
    BY <2>3, <2>4 DEF Building
  <2>6. Allowed'
    BY <1>1, <1>8 DEF Allowed
  <2> QED BY <1>1, <1>3, <2>5, <2>6, InvSound, SameSound, ReachedNext DEF Rebuilt
<1> QED BY <1>6, <1>7, <1>8

LEMMA PackageKeeps == ASSUME ReleaseInv, Package PROVE ReleaseInv'
<1> DEFINE made == [files |-> dist, eligible |-> policy.eligible, blocking |-> policy.blocking]
<1>1. /\ At("package")
      /\ \/ todo' = Tail(todo) /\ package' = made
         \/ todo' = <<>> /\ UNCHANGED package
      /\ UNCHANGED <<dist, before, swapped>>
  BY DEF Package, Fail
<1>2. AtHandoff(2) \/ AtDrill(2)
  <2>1. todo # <<>> /\ Head(todo) = <<"step", "package">> /\ Placed
    BY <1>1 DEF At, ReleaseInv
  <2>2. "package" \notin Builds
    BY DEF Builds
  <2> QED BY <2>1, <2>2, WhereAt
<1>3. ~ swapped' => Clean(dist')
  BY <1>1, <1>2, Places, InvClean
<1>4. todo' = <<>> \/ AtDrill(3)'
  <2>1. 2 \in 1..23 /\ 2 + 1 = 3
    OBVIOUS
  <2> QED BY <1>1, <1>2, <2>1, HandoffEnds, DrillGoesOn
<1>5. Complete(dist) /\ Agree(dist) /\ Allowed
  BY <1>1 DEF ReleaseInv
<1>6. PackageFits(made)
  <2>1. made.files = dist /\ made.eligible = policy.eligible /\ made.blocking = policy.blocking
    OBVIOUS
  <2> HIDE DEF made
  <2> QED BY <1>5, <2>1 DEF PackageFits, Allowed
<1> HIDE DEF made
<1>7. package' # <<>> => PackageFits(package')
  BY <1>1, <1>6, InvSound DEF Sound
<1>8. Sound'
  BY <1>1, <1>7, InvSound DEF Sound, Named, PackageFits, Complete, Agree
<1> QED BY <1>3, <1>4, <1>8, ReachedNext DEF Resting

LEMMA SnapshotKeeps == ASSUME ReleaseInv, Snapshot PROVE ReleaseInv'
<1>1. /\ At("snapshot") /\ todo' = Tail(todo) /\ current' = dist /\ before' = dist
      /\ UNCHANGED <<dist, package, swapped>>
  BY DEF Snapshot
<1>2. AtDrill(3)
  <2>1. todo # <<>> /\ Head(todo) = <<"step", "snapshot">> /\ Placed
    BY <1>1 DEF At, ReleaseInv
  <2>2. "snapshot" \notin Builds
    BY DEF Builds
  <2> QED BY <2>1, <2>2, WhereAt
<1>3. ~ swapped' => Clean(before')
  BY <1>1, <1>2, Places, InvClean
<1>4. 4 \in 4..23 /\ AtDrill(4)'
  <2>1. 3 \in 1..23 /\ 3 + 1 = 4 /\ 4 \in 4..23
    OBVIOUS
  <2> QED BY <1>1, <1>2, <2>1, DrillGoesOn
<1>5. ToBeRestored(4)'
  BY <1>1 DEF ToBeRestored
<1>6. Sound'
  BY <1>1, InvSound DEF Sound, Named, PackageFits, Complete, Agree
<1> QED BY <1>3, <1>4, <1>5, <1>6, ReachedNext DEF Swapped

(* In a swap, a step that leaves dist alone and brings no file back. *)
LEMMA SwapGoesOn ==
  ASSUME ReleaseInv, NEW m \in 4..22, AtDrill(m), todo' = Tail(todo), UNCHANGED <<dist, current, before, package, swapped>>,
         \A n \in 1..8 : m # 13 + n
  PROVE  ReleaseInv'
<1>1. m \in 4..23 /\ m \in 1..23 /\ m + 1 \in 4..23 /\ m \in Int
  OBVIOUS
<1>2. AtDrill(m + 1)'
  BY <1>1, DrillGoesOn
<1>3. ToBeRestored(m) /\ Swapping
  BY <1>1 DEF ReleaseInv, Swapping
<1>4. \A n \in 1..8 : m <= 13 + n => m + 1 <= 13 + n
  OBVIOUS
<1>5. ToBeRestored(m + 1)'
  BY <1>3, <1>4 DEF ToBeRestored
<1>6. ~ swapped' => Clean(before')
  BY <1>3 DEF ReleaseInv
<1>7. Sound'
  BY InvSound, SameSound DEF SameFiles
<1> QED BY <1>1, <1>2, <1>5, <1>6, <1>7, ReachedNext DEF Swapped

LEMMA SimulateKeeps == ASSUME ReleaseInv, Simulate PROVE ReleaseInv'
<1>1. /\ At("simulate") /\ todo' = Tail(todo) /\ UNCHANGED <<dist, current, before, package, swapped>>
  BY DEF Simulate
<1>2. AtDrill(4)
  <2>1. todo # <<>> /\ Head(todo) = <<"step", "simulate">> /\ Placed
    BY <1>1 DEF At, ReleaseInv
  <2>2. "simulate" \notin Builds
    BY DEF Builds
  <2> QED BY <2>1, <2>2, WhereAt
<1>3. 4 \in 4..22 /\ \A n \in 1..8 : 4 # 13 + n
  OBVIOUS
<1> QED BY <1>1, <1>2, <1>3, SwapGoesOn

LEMMA ObserveKeeps == ASSUME ReleaseInv, Observe PROVE ReleaseInv'
<1>1. /\ At("observe") /\ todo' = Tail(todo) /\ UNCHANGED <<dist, current, before, package, swapped>>
  BY DEF Observe
<1>2. AtDrill(13) \/ AtDrill(22)
  <2>1. todo # <<>> /\ Head(todo) = <<"step", "observe">> /\ Placed
    BY <1>1 DEF At, ReleaseInv
  <2>2. "observe" \notin Builds
    BY DEF Builds
  <2> QED BY <2>1, <2>2, WhereAt
<1>3. 13 \in 4..22 /\ 22 \in 4..22 /\ \A n \in 1..8 : 13 # 13 + n /\ 22 # 13 + n
  OBVIOUS
<1> QED BY <1>1, <1>2, <1>3, SwapGoesOn

LEMMA CopyKeeps == ASSUME ReleaseInv, NEW from \in {"previous", "current"}, NEW f \in ToSet(Files), Copy(from, f)
                   PROVE  ReleaseInv'
<1>1. /\ todo # <<>> /\ Head(todo) = <<from, f>> /\ todo' = Tail(todo)
      /\ dist' = [dist EXCEPT ![f] = IF from = "previous" THEN previous[f] ELSE current[f]]
      /\ UNCHANGED <<current, before, package, swapped>>
  BY DEF Copy
<1>2. \/ from = "previous" /\ \E n \in 1..8 : f = Files[n] /\ AtDrill(4 + n)
      \/ from = "current" /\ \E n \in 1..8 : f = Files[n] /\ AtDrill(13 + n)
  <2>1. Placed
    BY DEF ReleaseInv
  <2> QED BY <1>1, <2>1, WhereAt
<1>3. f \in File /\ dist = [g \in File |-> dist[g]]
  BY FilesAre DEF ReleaseInv, Named
<1>4. Sound'
  <2>1. Named(dist')
    BY <1>1, <1>3 DEF Named
  <2> QED BY <1>1, <2>1, InvSound DEF Sound, Named, PackageFits, Complete, Agree
<1>5. \A g \in File : g # f => dist'[g] = dist[g]
  BY <1>1, <1>3
<1>6. ASSUME NEW m \in 4..22, AtDrill(m), \A n \in 1..8 : f = Files[n] => dist'[f] = before[f] \/ m + 1 <= 13 + n,
             \A n \in 1..8 : f # Files[n] => m # 13 + n
      PROVE  ReleaseInv'
  <2>1. m \in 4..23 /\ m \in 1..23 /\ m + 1 \in 4..23 /\ m \in Int
    OBVIOUS
  <2>2. AtDrill(m + 1)'
    BY <1>1, <1>6, <2>1, DrillGoesOn
  <2>3. ToBeRestored(m) /\ Swapping
    BY <1>6, <2>1 DEF ReleaseInv, Swapping
  <2>4. ASSUME NEW g \in File
        PROVE  dist'[g] = before[g] \/ \E n \in 1..8 : g = Files[n] /\ m + 1 <= 13 + n
    <3>1. CASE g = f
      <4>1. PICK n \in 1..8 : f = Files[n]
        BY FilesAre
      <4> QED BY <1>6, <3>1, <4>1
    <3>2. CASE g # f
      <4>1. CASE dist[g] = before[g]
        BY <1>5, <3>2, <4>1
      <4>2. CASE dist[g] # before[g]
        <5>1. PICK n \in 1..8 : g = Files[n] /\ m <= 13 + n
          BY <2>3, <4>2 DEF ToBeRestored
        <5>2. m # 13 + n
          BY <1>6, <3>2, <5>1
        <5> QED BY <5>1, <5>2
      <4> QED BY <4>1, <4>2
    <3> QED BY <3>1, <3>2
  <2>5. ToBeRestored(m + 1)'
    BY <1>1, <2>3, <2>4 DEF ToBeRestored
  <2>6. ~ swapped' => Clean(before')
    BY <1>1, <2>3 DEF ReleaseInv
  <2> QED BY <1>4, <2>1, <2>2, <2>5, <2>6, ReachedNext DEF Swapped
<1>7. ASSUME NEW n \in 1..8, f = Files[n], AtDrill(4 + n) PROVE ReleaseInv'
  <2>1. 4 + n \in 4..22 /\ \A k \in 1..8 : 4 + n # 13 + k /\ (4 + n) + 1 <= 13 + k
    OBVIOUS
  <2> QED BY <1>6, <1>7, <2>1
<1>8. ASSUME NEW n \in 1..8, f = Files[n], AtDrill(13 + n), from = "current" PROVE ReleaseInv'
  <2>1. 13 + n \in 4..22 /\ 13 + n \in 4..23 /\ \A k \in 1..8 : 13 + n = 13 + k => n = k
    OBVIOUS
  <2>2. ToBeRestored(13 + n)
    BY <1>8, <2>1 DEF ReleaseInv
  <2>3. dist'[f] = before[f]
    BY <1>1, <1>3, <1>8, <2>2 DEF ToBeRestored
  <2>4. \A k \in 1..8 : f # Files[k] => 13 + n # 13 + k
    BY <1>8, <2>1
  <2> QED BY <1>6, <1>8, <2>1, <2>3, <2>4
<1> QED BY <1>2, <1>7, <1>8

(* At the end of a drill everything has been copied back. *)
LEMMA AllRestored == ASSUME ReleaseInv, NEW m \in 22..23, AtDrill(m) PROVE dist = before
<1>1. m \in 4..23 /\ \A n \in 1..8 : ~ m <= 13 + n
  OBVIOUS
<1>2. ToBeRestored(m)
  BY <1>1 DEF ReleaseInv
<1>3. \A f \in File : dist[f] = before[f]
  BY <1>1, <1>2 DEF ToBeRestored
<1> QED BY <1>3, Zenon DEF ReleaseInv, Named

LEMMA ReportKeeps == ASSUME ReleaseInv, Report PROVE ReleaseInv'
<1>1. At("report") /\ todo' = Tail(todo) /\ SameFiles /\ UNCHANGED swapped
  BY DEF Report, SameFiles
<1>2. AtDrill(23)
  <2>1. todo # <<>> /\ Head(todo) = <<"step", "report">> /\ Placed
    BY <1>1 DEF At, ReleaseInv
  <2>2. "report" \notin Builds
    BY DEF Builds
  <2> QED BY <2>1, <2>2, WhereAt
<1>3. dist = before /\ Swapping
  <2>1. 23 \in 22..23 /\ 23 \in 4..23
    OBVIOUS
  <2> QED BY <1>2, <2>1, AllRestored DEF Swapping
<1>4. ~ swapped' => Clean(dist')
  BY <1>1, <1>3 DEF ReleaseInv, SameFiles
<1>5. todo' = <<>>
  BY <1>1, <1>2, DrillEnds
<1> QED BY <1>1, <1>4, <1>5, InvSound, SameSound, ReachedNext DEF Resting

LEMMA CutKeeps == ASSUME ReleaseInv, Cut PROVE ReleaseInv'
<1>1. /\ todo' = <<>> /\ SameFiles
      /\ swapped' = \/ swapped
                    \/ /\ ~ Contains(todo, <<"step", "snapshot">>)
                       /\ \E f \in ToSet(Files) : dist[f] # before[f] /\ Contains(todo, <<"current", f>>)
  BY DEF Cut, SameFiles
<1>2. CASE ~ Swapping
  <2>1. ~ swapped' => Clean(dist')
    BY <1>1, <1>2, InvClean DEF SameFiles
  <2> QED BY <1>1, <2>1, InvSound, SameSound, ReachedNext DEF Resting
<1>3. CASE Swapping
  <2> PICK m \in 4..23 : AtDrill(m)
    BY <1>3 DEF Swapping
  <2>1. m \in 1..23 /\ m \in Int
    OBVIOUS
  <2>2. ToBeRestored(m)
    BY DEF ReleaseInv
  <2>3. ~ Contains(todo, <<"step", "snapshot">>)
    <3>1. \A n \in 1..Len(todo) : m + n - 1 \in m..23 /\ todo[n] = DrillScript[m + n - 1]
      BY <2>1, DrillMoves
    <3>2. \A n \in m..23 : n \in 4..23
      BY <2>1
    <3>3. \A n \in 1..Len(todo) : todo[n] # <<"step", "snapshot">>
      BY <3>1, <3>2, LateSteps
    <3> QED BY <3>3 DEF Contains
  <2>4. ASSUME ~ swapped' PROVE dist = before
    <3>1. ASSUME NEW f \in File, dist[f] # before[f] PROVE FALSE
      <4>1. PICK n \in 1..8 : f = Files[n] /\ m <= 13 + n
        BY <2>2, <3>1 DEF ToBeRestored
      <4>2. 13 + n \in m..23
        BY <2>1, <4>1
      <4>3. 1 + (13 + n) - m \in 1..Len(todo) /\ todo[1 + (13 + n) - m] = DrillScript[13 + n]
        BY <2>1, <4>2, DrillMoves
      <4>4. DrillScript[13 + n] = <<"current", f>>
        BY <4>1, DrillIs
      <4>5. Contains(todo, <<"current", f>>)
        BY <4>3, <4>4 DEF Contains
      <4>6. f \in ToSet(Files)
        BY <4>1, FilesAre
      <4> QED BY <1>1, <2>3, <2>4, <3>1, <4>5, <4>6
    <3> QED BY <3>1, Zenon DEF ReleaseInv, Named
  <2>5. ~ swapped' => Clean(dist')
    BY <1>1, <1>3, <2>4 DEF ReleaseInv, SameFiles
  <2> QED BY <1>1, <2>5, InvSound, SameSound, ReachedNext DEF Resting
<1> QED BY <1>2, <1>3

LEMMA CommitKeeps == ASSUME ReleaseInv, Commit PROVE ReleaseInv'
<1>1. todo = <<>> /\ todo' = <<>> /\ SameFiles /\ UNCHANGED swapped
  BY DEF Commit, SameFiles
<1>2. ~ Swapping
  BY <1>1, NothingLeft
<1>3. ~ swapped' => Clean(dist')
  BY <1>1, <1>2, InvClean DEF SameFiles
<1> QED BY <1>1, <1>3, InvSound, SameSound, ReachedNext DEF Resting

-----------------------------------------------------------------------------
(* The theorems *)

LEMMA InvInit == ReleaseInit => ReleaseInv
<1> SUFFICES ASSUME ReleaseInit PROVE ReleaseInv
  OBVIOUS
<1>1. Named(dist) /\ Named(before) /\ todo = <<>> /\ package = <<>>
  BY DEF ReleaseInit, Empty, Named
<1>2. Clean(dist)
  BY FilesAre DEF ReleaseInit, Empty, Clean
<1> QED BY <1>1, <1>2, Reached DEF Sound, Resting

LEMMA InvNext == ReleaseInv /\ [ReleaseNext]_release => ReleaseInv'
<1> SUFFICES ASSUME ReleaseInv, [ReleaseNext]_release PROVE ReleaseInv'
  OBVIOUS
<1>1. ASSUME NEW script \in {Steps(HandoffScript), DrillScript}, StartScript(script) PROVE ReleaseInv'
  BY <1>1, StartKeeps
<1>2. CASE SkipDrill
  BY <1>2, SkipKeeps
<1>3. ASSUME NEW signs \in BOOLEAN, Write(signs) PROVE ReleaseInv'
  BY <1>3, WriteKeeps
<1>4. CASE Ensure
  BY <1>4, EnsureKeeps
<1>5. CASE Check
  BY <1>5, CheckKeeps
<1>6. CASE Package
  BY <1>6, PackageKeeps
<1>7. CASE Snapshot
  BY <1>7, SnapshotKeeps
<1>8. CASE Simulate
  BY <1>8, SimulateKeeps
<1>9. CASE Observe
  BY <1>9, ObserveKeeps
<1>10. CASE Report
  BY <1>10, ReportKeeps
<1>11. ASSUME NEW from \in {"previous", "current"}, NEW f \in ToSet(Files), Copy(from, f) PROVE ReleaseInv'
  BY <1>11, CopyKeeps
<1>12. CASE Cut
  BY <1>12, CutKeeps
<1>13. CASE Commit
  BY <1>13, CommitKeeps
<1>14. CASE UNCHANGED release
  BY <1>14 DEF release, ReleaseInv, Named, Placed, Building, AtBuild, AtHandoff, AtDrill, At, Allowed,
               Complete, Agree, PackageFits, ToBeRestored, Swapping, Clean
<1> QED BY <1>1, <1>2, <1>3, <1>4, <1>5, <1>6, <1>7, <1>8, <1>9, <1>10, <1>11, <1>12, <1>13, <1>14
        DEF ReleaseNext, Step

LEMMA ReleaseInvHolds == ReleaseSpec => []ReleaseInv
BY InvInit, InvNext, PTL DEF ReleaseSpec

(* Whatever was cut off, built in part, committed or swapped before: the
   package that build_handoff_package writes is of files that belong to each
   other, and is called eligible only if no required gate blocks it. *)
THEOREM PackagesAreWhole == ReleaseSpec => []PackageIsOneBundle
<1>1. ReleaseInv => PackageIsOneBundle
  BY DEF ReleaseInv, PackageFits, PackageIsOneBundle
<1> QED BY <1>1, ReleaseInvHolds, PTL

(* The rollback drill, from whatever dist it is started: when it comes to its
   report every file is as it was before the swap, and none is one that it
   made up, unless a drill was cut off while the files were swapped. *)
THEOREM DrillsAreUndone == ReleaseSpec => []SimulationIsUndone
<1>1. ASSUME ReleaseInv, At("report") PROVE dist = before
  <2>1. todo # <<>> /\ Head(todo) = <<"step", "report">> /\ Placed
    BY <1>1 DEF At, ReleaseInv
  <2>2. "report" \notin Builds
    BY DEF Builds
  <2>3. AtDrill(23)
    BY <2>1, <2>2, WhereAt
  <2>4. 23 \in 22..23
    OBVIOUS
  <2> QED BY <1>1, <2>3, <2>4, AllRestored
<1>2. ASSUME ReleaseInv, todo = <<>>, ~ swapped PROVE Clean(dist)
  BY <1>2, NothingLeft, InvClean
<1>3. ReleaseInv => SimulationIsUndone
  BY <1>1, <1>2 DEF SimulationIsUndone, Clean
<1> QED BY <1>3, ReleaseInvHolds, PTL
=============================================================================
