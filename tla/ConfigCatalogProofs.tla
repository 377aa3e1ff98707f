------------------------- MODULE ConfigCatalogProofs -------------------------
(***************************************************************************)
(* Proofs about ConfigCatalog, for any browsers, versions and images, any  *)
(* number of concurrent reloads and of changes: browsers.json always wins, *)
(* and an outage of both sources keeps the catalog.  Every catalog served  *)
(* is what one Load made of what that one Load read.                       *)
(***************************************************************************)
EXTENDS ConfigCatalog, NumberLemmas, TLAPS

\* What a Load may have read.
Readings == [file : Files, images : ImageLists]

\* The catalog is what one reading makes, never a mixture of two.
OneReading == catalog = Loaded(source)

IInv ==
    /\ file \in Files
    /\ images \in ImageLists
    /\ seen \in [Loads -> Readings]
    /\ source \in Readings
    /\ OneReading

\* What is decoded is a function to entries whose browsers are the file's.
LEMMA FileEntries ==
    ASSUME NEW f \in Catalogs, NEW n \in DOMAIN f,
           NEW v \in DOMAIN f[n].versions
    PROVE  f[n].versions[v] = "file"
<1>1. PICK N \in SUBSET Names : f \in [N -> Entries]
  BY DEF Catalogs
<1>2. f[n] \in Entries
  BY <1>1
<1>3. PICK S \in SUBSET Versions :
        f[n] \in [default : Versions \cup {NoVersion}, versions : [S -> {"file"}]]
  BY <1>2 DEF Entries
<1>4. f[n].versions \in [S -> {"file"}]
  BY <1>3
<1> QED
  BY <1>4

\* merge: whatever was found, each browser of the file keeps its versions, and
\* its default if it has one.
LEMMA MergeKeepsFile ==
    ASSUME NEW found, NEW fromFile, NEW n \in DOMAIN fromFile
    PROVE  LET m == Merge(found, fromFile) IN
           /\ n \in DOMAIN m
           /\ \A v \in DOMAIN fromFile[n].versions :
                m[n].versions[v] = fromFile[n].versions[v]
           /\ fromFile[n].default \in {NoVersion, m[n].default}
<1> DEFINE m == Merge(found, fromFile)
<1>1. n \in DOMAIN m
  BY DEF Merge
<1>2. CASE n \notin DOMAIN found
  <2>1. m[n] = fromFile[n]
    BY <1>2 DEF Merge
  <2> QED
    BY <1>1, <2>1
<1>3. CASE n \in DOMAIN found
  <2>1. m[n] = Overlay(found[n], fromFile[n])
    BY <1>3 DEF Merge
  <2>2. \A v \in DOMAIN fromFile[n].versions :
          m[n].versions[v] = fromFile[n].versions[v]
    BY <2>1 DEF Overlay
  <2>3. fromFile[n].default # NoVersion => m[n].default = fromFile[n].default
    BY <2>1 DEF Overlay
  <2> QED
    BY <1>1, <2>2, <2>3
<1> QED
  BY <1>2, <1>3

\* What Load makes of a reading holds what was decoded of the file.
LEMMA LoadedKeepsFile ==
    ASSUME NEW s \in Readings, NEW n \in DOMAIN s.file.br
    PROVE  /\ n \in DOMAIN Loaded(s)
           /\ \A v \in DOMAIN s.file.br[n].versions :
                Loaded(s)[n].versions[v] = "file"
           /\ s.file.br[n].default \in {NoVersion, Loaded(s)[n].default}
<1>1. s.file.br \in Catalogs
  BY DEF Readings, Files
<1>2. \A v \in DOMAIN s.file.br[n].versions : s.file.br[n].versions[v] = "file"
  BY <1>1, FileEntries
<1>3. CASE ~Discovery \/ s.images = Unreadable
  <2>1. Loaded(s) = s.file.br
    BY <1>3 DEF Loaded
  <2> QED
    BY <1>2, <2>1
<1>4. CASE Discovery /\ s.images # Unreadable
  <2>1. Loaded(s) = Merge(FromImages(s.images), s.file.br)
    BY <1>4 DEF Loaded
  <2> QED
    BY <1>2, <2>1, MergeKeepsFile
<1> QED
  BY <1>3, <1>4

\* Before it has read, a Load has read nothing.
LEMMA NothingIsRead == NothingRead \in Readings
<1>1. EmptyCatalog \in [{} -> Entries]
  BY DEF EmptyCatalog
<1>2. EmptyCatalog \in Catalogs
  BY <1>1 DEF Catalogs
<1> QED
  BY <1>2 DEF NothingRead, Readings, Files, ImageLists

\* The hub starts with the catalog of its first Load.
LEMMA InitIInv == Init => IInv
<1> SUFFICES ASSUME Init PROVE IInv
  OBVIOUS
<1>1. seen \in [Loads -> Readings] /\ source \in Readings
  BY NothingIsRead DEF Init, Readings
<1> QED
  BY <1>1 DEF Init, IInv, OneReading

\* Edits change what is read later; only Store changes the catalog.
LEMMA NextIInv == IInv /\ [Next]_vars => IInv'
<1> SUFFICES ASSUME IInv, [Next]_vars PROVE IInv'
  OBVIOUS
<1> USE DEF IInv, OneReading
<1>1. CASE Edit
  BY <1>1 DEF Edit
<1>2. ASSUME NEW l \in Loads, ReadFile(l) PROVE IInv'
  <2>1. [seen[l] EXCEPT !.file = file] \in Readings
    BY DEF Readings
  <2>2. seen' \in [Loads -> Readings]
    BY <1>2, <2>1 DEF ReadFile, Readings
  <2> QED
    BY <1>2, <2>2 DEF ReadFile
<1>3. ASSUME NEW l \in Loads, Scan(l) PROVE IInv'
  <2>1. [seen[l] EXCEPT !.images = images] \in Readings
    BY DEF Readings
  <2>2. seen' \in [Loads -> Readings]
    BY <1>3, <2>1 DEF Scan, Readings
  <2> QED
    BY <1>3, <2>2 DEF Scan
<1>4. ASSUME NEW l \in Loads, Store(l) PROVE IInv'
  <2>1. seen' \in [Loads -> Readings] /\ UNCHANGED <<file, images>>
    BY NothingIsRead, <1>4 DEF Store, EndLoad
  <2>2. source' = seen[l] /\ catalog' = Loaded(source')
    BY <1>4 DEF Store
  <2> QED
    BY <2>1, <2>2 DEF Loaded
<1>5. ASSUME NEW l \in Loads, GiveUp(l) PROVE IInv'
  BY NothingIsRead, <1>5 DEF GiveUp, EndLoad
<1>6. CASE UNCHANGED vars
  BY <1>6 DEF vars
<1> QED
  BY <1>1, <1>2, <1>3, <1>4, <1>5, <1>6 DEF Next

----------------------------------------------------------------------------
\* The invariant holds whatever is edited while reloads run.
THEOREM Invariance == Spec => []IInv
BY InitIInv, NextIInv, PTL DEF Spec

\* browsers.json always wins: what the file of the catalog's own reading
\* configures is served, with its default, for any result of the scan.
THEOREM FileAlwaysWins == Spec => []FileWins
<1>1. IInv => FileWins
  BY LoadedKeepsFile DEF IInv, OneReading, FileWins
<1> QED
  BY <1>1, Invariance, PTL

\* A catalog is only replaced by one that comes from somewhere: from a file that
\* could be read, from what could be decoded of one, or from an image.
THEOREM OutageKeeps == Spec => OutageKeepsCatalog
<1>1. [Next]_vars =>
        [catalog' # catalog =>
           \/ ~source'.file.err
           \/ source'.file.br # EmptyCatalog
           \/ Discovery /\ source'.images \notin {Unreadable, <<>>}]_vars
  <2> SUFFICES ASSUME [Next]_vars, catalog' # catalog,
                      source'.file.err, source'.file.br = EmptyCatalog
               PROVE  Discovery /\ source'.images \notin {Unreadable, <<>>}
    OBVIOUS
  <2>1. PICK l \in Loads : Store(l)
    BY DEF Next, vars, Edit, ReadFile, Scan, GiveUp
  <2>2. source' = seen[l] /\ ~Refuses(seen[l])
    BY <2>1 DEF Store
  <2>3. ASSUME seen[l].file.err, seen[l].file.br = EmptyCatalog
        PROVE  Discovery /\ seen[l].images \notin {Unreadable, <<>>}
    <3>1. Discovery /\ Loaded(seen[l]) # EmptyCatalog
      BY <2>2, <2>3 DEF Refuses
    <3>2. seen[l].images # Unreadable
      BY <2>3, <3>1 DEF Loaded
    <3>3. FromImages(<<>>) = EmptyCatalog
      <4>1. {<<>>[i].name : i \in DOMAIN <<>>} = {}
        OBVIOUS
      <4> QED
        BY <4>1 DEF FromImages, EmptyCatalog
    <3>4. Merge(EmptyCatalog, EmptyCatalog) = EmptyCatalog
      <4>1. DOMAIN EmptyCatalog = {}
        BY DEF EmptyCatalog
      <4> QED
        BY <4>1 DEF Merge, EmptyCatalog
    <3> QED
      BY <2>3, <3>1, <3>2, <3>3, <3>4 DEF Loaded
  <2> QED
    BY <2>2, <2>3
<1> QED
  BY <1>1, PTL DEF Spec, OutageKeepsCatalog

----------------------------------------------------------------------------
(* The newest version.  `Newest` is a loop over the list of images: that   *)
(* it computes anything, and what holds after each image, is shown by      *)
(* climbing the list.                                                      *)

\* One turn of the loop: f[i] from f[i - 1].
Turn(list, n, f, i) ==
    IF i = 0 THEN NoVersion
    ELSE IF list[i].name = n /\ Newer(list[i].version, f[i - 1])
         THEN list[i].version ELSE f[i - 1]

\* For any list there is what the loop computes.
LEMMA TurnsExist ==
    ASSUME NEW list, Len(list) \in Nat, NEW n
    PROVE  \E f : f = [i \in 0 .. Len(list) |-> Turn(list, n, f, i)]
<1> DEFINE S == {k \in 0 .. Len(list) :
                   \E f : f = [i \in 0 .. k |-> Turn(list, n, f, i)]}
<1>1. 0 \in S
  <2>1. [i \in 0 .. 0 |-> NoVersion] =
          [i \in 0 .. 0 |-> Turn(list, n, [j \in 0 .. 0 |-> NoVersion], i)]
    BY DEF Turn
  <2> QED
    BY <2>1
<1>2. ASSUME NEW k \in 1 .. Len(list), k - 1 \in S PROVE k \in S
  <2>1. PICK f : f = [i \in 0 .. k - 1 |-> Turn(list, n, f, i)]
    BY <1>2
  <2> DEFINE g == [i \in 0 .. k |-> IF i = k THEN Turn(list, n, f, k) ELSE f[i]]
  <2>2. \A i \in 0 .. k : i # k => i \in 0 .. k - 1 /\ g[i] = f[i]
    OBVIOUS
  <2>3. g[k] = Turn(list, n, f, k)
    OBVIOUS
  <2> HIDE DEF g
  <2>4. \A i \in 0 .. k : i # 0 => g[i - 1] = f[i - 1]
    BY <2>2
  <2>5. \A i \in 0 .. k : Turn(list, n, f, i) = Turn(list, n, g, i)
    BY <2>4 DEF Turn
  <2>6. \A i \in 0 .. k : g[i] = Turn(list, n, g, i)
    <3> SUFFICES ASSUME NEW i \in 0 .. k PROVE g[i] = Turn(list, n, g, i)
      OBVIOUS
    <3>1. CASE i = k
      BY <2>3, <2>5, <3>1
    <3>2. CASE i # k
      <4>1. f[i] = Turn(list, n, f, i)
        BY <2>1, <2>2, <3>2
      <4> QED
        BY <2>2, <2>5, <3>2, <4>1
    <3> QED
      BY <3>1, <3>2
  <2>7. g = [i \in 0 .. k |-> g[i]]
    BY DEF g
  <2>8. g = [i \in 0 .. k |-> Turn(list, n, g, i)]
    BY <2>6, <2>7
  <2> QED
    BY <2>8
<1> HIDE DEF S
<1>3. 0 .. Len(list) \subseteq S
  BY <1>1, <1>2, Climb
<1>4. Len(list) \in S
  BY <1>3
<1> QED
  BY <1>4 DEF S

Numbers == Seq(Nat)

\* A number that is missing counts as 0, so every number is known.
LEMMA Segments ==
    ASSUME NEW v \in Numbers, NEW i
    PROVE  Segment(v, i) \in Nat /\ (Segment(v, i) > 0 => i \in DOMAIN v)
<1>1. CASE i \in DOMAIN v
  <2>1. v \in [1 .. Len(v) -> Nat] /\ DOMAIN v = 1 .. Len(v)
    <3>1. \A S : \A s \in Seq(S) : s \in [1 .. Len(s) -> S] /\ DOMAIN s = 1 .. Len(s)
      OBVIOUS
    <3> QED
      BY <3>1, Zenon DEF Numbers
  <2>2. v[i] \in Nat
    BY <1>1, <2>1
  <2> QED
    BY <1>1, <2>2 DEF Segment
<1>2. CASE i \notin DOMAIN v
  BY <1>2 DEF Segment
<1> QED
  BY <1>1, <1>2

\* newer is transitive: the first number in which two differ decides.
LEMMA NewerTransitive ==
    ASSUME NEW a \in Numbers, NEW b \in Numbers \ {NoVersion},
           NEW c \in Numbers, Newer(a, b), Newer(b, c)
    PROVE  Newer(a, c)
<1> SUFFICES ASSUME c # NoVersion PROVE Newer(a, c)
  BY DEF Newer
<1>1. PICK i \in DOMAIN a \cup DOMAIN b :
        /\ Segment(a, i) > Segment(b, i)
        /\ \A j \in 1 .. i - 1 : Segment(a, j) = Segment(b, j)
  BY DEF Newer
<1>2. PICK k \in DOMAIN b \cup DOMAIN c :
        /\ Segment(b, k) > Segment(c, k)
        /\ \A j \in 1 .. k - 1 : Segment(b, j) = Segment(c, j)
  BY DEF Newer
<1>3. i \in Nat \ {0} /\ k \in Nat \ {0}
  BY DEF Numbers
<1>4. \A j : /\ Segment(a, j) \in Nat /\ Segment(b, j) \in Nat
            /\ Segment(c, j) \in Nat
  BY Segments
<1> DEFINE m == IF i < k THEN i ELSE k
<1>5. m \in Nat \ {0} /\ Segment(a, m) > Segment(c, m)
  <2>1. CASE i < k
    BY <1>1, <1>2, <1>3, <1>4, <2>1
  <2>2. CASE i = k
    BY <1>1, <1>2, <1>3, <1>4, <2>2
  <2>3. CASE i > k
    BY <1>1, <1>2, <1>3, <1>4, <2>3
  <2> QED
    BY <1>3, <2>1, <2>2, <2>3
<1>6. \A j \in 1 .. m - 1 : Segment(a, j) = Segment(c, j)
  BY <1>1, <1>2, <1>3
<1> HIDE DEF m
<1>7. m \in DOMAIN a
  BY <1>4, <1>5, Segments
<1> QED
  BY <1>5, <1>6, <1>7 DEF Newer

\* No version is newer than itself.
LEMMA NewerIrreflexive ==
    ASSUME NEW v \in Numbers \ {NoVersion} PROVE ~Newer(v, v)
<1>1. \A i : Segment(v, i) \in Nat
  BY Segments
<1> QED
  BY <1>1 DEF Newer

\* A version that is not newer is at most the other: where they first differ it
\* has the lesser number.
LEMMA NotNewerAtMost ==
    ASSUME NEW a \in Numbers, NEW b \in Numbers, ~Newer(a, b)
    PROVE  AtMost(a, b)
<1>1. \A j : Segment(a, j) \in Nat /\ Segment(b, j) \in Nat
  BY Segments
<1> SUFFICES ASSUME NEW i \in DOMAIN a, Segment(a, i) > Segment(b, i)
             PROVE  \E j \in 1 .. i - 1 : Segment(a, j) < Segment(b, j)
  BY DEF AtMost
<1> DEFINE T == {j \in 1 .. i : Segment(a, j) # Segment(b, j)}
<1>2. i \in Nat \ {0}
  BY DEF Numbers
<1>3. T \in SUBSET Nat /\ i \in T
  BY <1>1, <1>2
<1>4. PICK k \in T : \A j \in T : k <= j
  BY <1>3, Least
<1>5. k \in 1 .. i /\ \A j \in 1 .. k - 1 : Segment(a, j) = Segment(b, j)
  BY <1>2, <1>4
<1>6. ~(Segment(a, k) > Segment(b, k))
  <2> SUFFICES ASSUME Segment(a, k) > Segment(b, k) PROVE FALSE
    OBVIOUS
  <2>1. k \in DOMAIN a
    BY <1>1, Segments
  <2> QED
    BY <1>5, <2>1 DEF Newer
<1>7. Segment(a, k) < Segment(b, k) /\ k # i
  BY <1>1, <1>4, <1>6
<1> QED
  BY <1>2, <1>5, <1>7

Images == [name : Names, version : Versions]

\* A list of images as a function; each version has numbers, and is some.
LEMMA ImageList ==
    ASSUME NEW list \in ImageLists \ {Unreadable}
    PROVE  /\ Len(list) \in Nat /\ DOMAIN list = 1 .. Len(list)
           /\ \A i \in 1 .. Len(list) :
                /\ list[i] \in Images
                /\ list[i].name \in Names
                /\ list[i].version \in Versions
                /\ list[i].version \in Numbers \ {NoVersion}
<1>1. PICK m \in 0 .. MaxImages : list \in [1 .. m -> Images]
  BY DEF ImageLists, BoundedSeq, SeqOf, Images
<1>2. m \in Nat
  BY CatalogAssumption
<1>3. Len(list) = m
  BY <1>1, <1>2
<1>4. Versions \subseteq Numbers \ {NoVersion}
  BY CatalogAssumption DEF Numbers, NoVersion
<1> QED
  BY <1>1, <1>2, <1>3, <1>4 DEF Images

\* The loop ends with a version of an image of that name, if there is one, and
\* no image of that name has a newer one.
LEMMA NewestIs ==
    ASSUME NEW list \in ImageLists \ {Unreadable}, NEW n
    PROVE  /\ \/ Newest(list, n) = NoVersion
              \/ \E i \in 1 .. Len(list) :
                    list[i].name = n /\ Newest(list, n) = list[i].version
           /\ \A i \in 1 .. Len(list) : list[i].name = n =>
                /\ Newest(list, n) # NoVersion
                /\ ~Newer(list[i].version, Newest(list, n))
<1> DEFINE L == Len(list)
           f == CHOOSE g : g = [i \in 0 .. L |-> Turn(list, n, g, i)]
           P(k) == /\ \/ f[k] = NoVersion
                      \/ \E i \in 1 .. k : list[i].name = n /\ f[k] = list[i].version
                   /\ \A i \in 1 .. k : list[i].name = n =>
                        f[k] # NoVersion /\ ~Newer(list[i].version, f[k])
           S == {k \in 0 .. L : P(k)}
<1>1. L \in Nat /\ \A i \in 1 .. L : list[i].version \in Numbers \ {NoVersion}
  BY ImageList
<1>2. f = [i \in 0 .. L |-> Turn(list, n, f, i)]
  BY <1>1, TurnsExist
<1>3. Newest(list, n) = f[L]
  BY DEF Newest, Turn
<1> HIDE DEF f
<1>4. f[0] = NoVersion
  BY <1>1, <1>2 DEF Turn
<1>5. 0 \in S
  BY <1>1, <1>4
<1>6. ASSUME NEW k \in 1 .. L, k - 1 \in S PROVE k \in S
  <2>1. f[k] = IF list[k].name = n /\ Newer(list[k].version, f[k - 1])
               THEN list[k].version ELSE f[k - 1]
    <3>1. k # 0 /\ k \in 0 .. L
      BY <1>1
    <3>2. f[k] = Turn(list, n, f, k)
      BY <1>2, <3>1
    <3> QED
      BY <3>1, <3>2 DEF Turn
  <2>2. P(k - 1) /\ k - 1 \in 0 .. L
    BY <1>6
  <2>3. list[k].version \in Numbers \ {NoVersion}
    BY <1>1
  <2>4. f[k - 1] \in Numbers
    <3>1. NoVersion \in Numbers
      BY DEF NoVersion, Numbers
    <3>2. \A i \in 1 .. k - 1 : list[i].version \in Numbers
      BY <1>1
    <3> QED
      BY <2>2, <3>1, <3>2
  <2>5. CASE list[k].name = n /\ Newer(list[k].version, f[k - 1])
    <3>1. f[k] = list[k].version
      BY <2>1, <2>5
    <3>2. ~Newer(f[k], f[k])
      BY <2>3, <3>1, NewerIrreflexive
    <3>3. ASSUME NEW i \in 1 .. k - 1, list[i].name = n
          PROVE  ~Newer(list[i].version, f[k])
      <4> SUFFICES ASSUME Newer(list[i].version, f[k]) PROVE FALSE
        OBVIOUS
      <4>1. list[i].version \in Numbers
        BY <1>1
      <4>2. Newer(list[i].version, f[k - 1])
        BY <2>3, <2>4, <2>5, <3>1, <4>1, NewerTransitive
      <4> QED
        BY <2>2, <3>3, <4>2
    <3>4. \A i \in 1 .. k : list[i].name = n =>
            f[k] # NoVersion /\ ~Newer(list[i].version, f[k])
      BY <2>3, <3>1, <3>2, <3>3
    <3> QED
      BY <1>6, <2>5, <3>1, <3>4
  <2>6. CASE ~(list[k].name = n /\ Newer(list[k].version, f[k - 1]))
    <3>1. f[k] = f[k - 1]
      BY <2>1, <2>6
    <3>2. list[k].name = n => f[k] # NoVersion /\ ~Newer(list[k].version, f[k])
      BY <2>6, <3>1 DEF Newer
    <3>3. \A i \in 1 .. k : list[i].name = n =>
            f[k] # NoVersion /\ ~Newer(list[i].version, f[k])
      BY <2>2, <3>1, <3>2
    <3>4. f[k] = NoVersion
          \/ \E i \in 1 .. k : list[i].name = n /\ f[k] = list[i].version
      BY <2>2, <3>1
    <3> QED
      BY <1>6, <3>3, <3>4
  <2> QED
    BY <2>5, <2>6
<1> HIDE DEF S
<1>7. 0 .. L \subseteq S
  BY <1>1, <1>5, <1>6, Climb
<1>8. P(L)
  BY <1>1, <1>7 DEF S
<1> QED
  BY <1>3, <1>8
----------------------------------------------------------------------------
(* What is loaded: its types, and its defaults.                            *)

\* What may be said of an entry, from the file, the images or both.
IsEntry(e) ==
    /\ e.default \in Versions \cup {NoVersion}
    /\ DOMAIN e.versions \subseteq Versions

\* The file names its browsers and their versions.
LEMMA FileTypes ==
    ASSUME NEW f \in Catalogs
    PROVE  DOMAIN f \subseteq Names /\ \A n \in DOMAIN f : IsEntry(f[n])
<1>1. PICK N \in SUBSET Names : f \in [N -> Entries]
  BY DEF Catalogs
<1>2. ASSUME NEW n \in N PROVE IsEntry(f[n])
  <2>1. PICK S \in SUBSET Versions :
          f[n] \in [default : Versions \cup {NoVersion}, versions : [S -> {"file"}]]
    BY <1>1 DEF Entries
  <2>2. DOMAIN f[n].versions = S
    BY <2>1
  <2> QED
    BY <2>1, <2>2 DEF IsEntry
<1> QED
  BY <1>1, <1>2

\* A scan finds the browsers of its images, with their versions and, as the
\* default, the newest.
LEMMA FoundIs ==
    ASSUME NEW list \in ImageLists \ {Unreadable}
    PROVE  /\ DOMAIN FromImages(list) \subseteq Names
           /\ \A n \in DOMAIN FromImages(list) : IsEntry(FromImages(list)[n])
           /\ \A i \in 1 .. Len(list) :
                /\ list[i].name \in DOMAIN FromImages(list)
                /\ list[i].version \in DOMAIN FromImages(list)[list[i].name].versions
           /\ \A n \in DOMAIN FromImages(list) :
                FromImages(list)[n].default = Newest(list, n)
<1> DEFINE Of(n) == {i \in DOMAIN list : list[i].name = n}
           found == FromImages(list)
<1>1. /\ DOMAIN list = 1 .. Len(list)
      /\ \A i \in 1 .. Len(list) :
           list[i].name \in Names /\ list[i].version \in Versions
  BY ImageList
<1>2. DOMAIN found = {list[i].name : i \in DOMAIN list}
  BY DEF FromImages
<1>3. \A n \in DOMAIN found :
        /\ found[n].default = Newest(list, n)
        /\ DOMAIN found[n].versions = {list[i].version : i \in Of(n)}
  BY DEF FromImages
<1> HIDE DEF found
<1>4. ASSUME NEW n \in DOMAIN found PROVE IsEntry(found[n])
  <2>1. Newest(list, n) \in Versions \cup {NoVersion}
    BY <1>1, NewestIs
  <2> QED
    BY <1>1, <1>3, <2>1 DEF IsEntry
<1>5. \A i \in 1 .. Len(list) :
        /\ list[i].name \in DOMAIN found
        /\ list[i].version \in DOMAIN found[list[i].name].versions
  BY <1>1, <1>2, <1>3
<1> QED
  BY <1>1, <1>2, <1>3, <1>4, <1>5 DEF found

\* What a Load stores: entries of known browsers...
LEMMA LoadedTypes ==
    ASSUME NEW s \in Readings
    PROVE  /\ DOMAIN Loaded(s) \subseteq Names
           /\ \A n \in DOMAIN Loaded(s) : IsEntry(Loaded(s)[n])
<1> DEFINE fromFile == s.file.br
           found == FromImages(s.images)
<1>1. DOMAIN fromFile \subseteq Names /\ \A n \in DOMAIN fromFile : IsEntry(fromFile[n])
  <2>1. s.file.br \in Catalogs
    BY DEF Readings, Files
  <2> QED
    BY <2>1, FileTypes
<1>2. CASE ~Discovery \/ s.images = Unreadable
  BY <1>1, <1>2 DEF Loaded
<1>3. CASE Discovery /\ s.images # Unreadable
  <2>1. Loaded(s) = Merge(found, fromFile)
    BY <1>3 DEF Loaded
  <2>2. DOMAIN found \subseteq Names /\ \A n \in DOMAIN found : IsEntry(found[n])
    BY <1>3, FoundIs DEF Readings
  <2> HIDE DEF found, fromFile
  <2>3. DOMAIN Merge(found, fromFile) = DOMAIN found \cup DOMAIN fromFile
    BY DEF Merge
  <2>4. ASSUME NEW n \in DOMAIN found \cup DOMAIN fromFile
        PROVE  IsEntry(Merge(found, fromFile)[n])
    <3>1. CASE n \notin DOMAIN found
      BY <1>1, <3>1 DEF Merge
    <3>2. CASE n \notin DOMAIN fromFile
      BY <2>2, <3>2 DEF Merge
    <3>3. CASE n \in DOMAIN found /\ n \in DOMAIN fromFile
      <4>1. Merge(found, fromFile)[n] = Overlay(found[n], fromFile[n])
        BY <3>3 DEF Merge
      <4>2. IsEntry(Overlay(found[n], fromFile[n]))
        BY <1>1, <2>2, <3>3 DEF IsEntry, Overlay
      <4> QED
        BY <4>1, <4>2
    <3> QED
      BY <3>1, <3>2, <3>3
  <2> QED
    BY <1>1, <2>1, <2>2, <2>3, <2>4
<1> QED
  BY <1>2, <1>3

\* ...and, where the file has no default, the scan's newest version as default,
\* every version the scan found being there to serve.
LEMMA LoadedDefault ==
    ASSUME NEW s \in Readings, Discovery, s.images # Unreadable,
           NEW i \in 1 .. Len(s.images), NEW n, n = s.images[i].name,
           n \notin DOMAIN s.file.br \/ s.file.br[n].default = NoVersion
    PROVE  /\ Loaded(s)[n].default = Newest(s.images, n)
           /\ s.images[i].version \in DOMAIN Loaded(s)[n].versions
<1> DEFINE fromFile == s.file.br
           found == FromImages(s.images)
<1>1. Loaded(s) = Merge(found, fromFile)
  BY DEF Loaded
<1>2. /\ n \in DOMAIN found /\ found[n].default = Newest(s.images, n)
      /\ s.images[i].version \in DOMAIN found[n].versions
  BY FoundIs DEF Readings
<1>3. n \notin DOMAIN fromFile \/ fromFile[n].default = NoVersion
  OBVIOUS
<1> HIDE DEF found, fromFile
<1>4. CASE n \notin DOMAIN fromFile
  BY <1>1, <1>2, <1>4 DEF Merge
<1>5. CASE n \in DOMAIN fromFile
  <2>1. Loaded(s)[n] = Overlay(found[n], fromFile[n])
    BY <1>1, <1>2, <1>5 DEF Merge
  <2> QED
    BY <1>2, <1>3, <1>5, <2>1 DEF Overlay
<1> QED
  BY <1>4, <1>5

----------------------------------------------------------------------------
\* The rest of the types: where the Loads stand, and how many changes there were.
Counted ==
    /\ pc \in [Loads -> {"idle", "scanning", "storing"}]
    /\ edits \in 0 .. MaxEdits

\* Before the first reload nothing is under way.
LEMMA InitCounted == Init => Counted
BY CatalogAssumption DEF Init, Counted

\* A Load goes from one of its steps to another.
LEMMA NextCounted == Counted /\ [Next]_vars => Counted'
BY CatalogAssumption
   DEF Counted, Next, vars, Edit, ReadFile, Scan, Store, GiveUp, EndLoad

\* Whatever is edited while reloads run, a catalog has known browsers only, and
\* a default and versions of theirs.
THEOREM TypeCorrect == Spec => []TypeOK
<1>1. IInv /\ Counted => TypeOK
  BY LoadedTypes DEF IInv, OneReading, Readings, Counted, TypeOK, IsEntry
<1> QED
  BY <1>1, InitIInv, NextIInv, InitCounted, NextCounted, PTL DEF Spec

\* The default that a scan gives is the newest version it found, whatever the
\* order of the images, the numbers and the lengths of the versions, and it can be
\* served.
THEOREM DefaultIsNewest == Spec => []ScannedDefaultIsNewest
<1>1. ASSUME IInv PROVE ScannedDefaultIsNewest
  <2> DEFINE Scanned(n) ==
               {v \in DOMAIN catalog[n].versions :
                  \E i \in DOMAIN source.images :
                      source.images[i] = [name |-> n, version |-> v]}
  <2> SUFFICES ASSUME NEW n \in DOMAIN catalog,
                      Discovery, source.images # Unreadable, Scanned(n) # {},
                      \/ n \notin DOMAIN source.file.br
                      \/ source.file.br[n].default = NoVersion
               PROVE  /\ catalog[n].default \in Scanned(n)
                      /\ \A v \in Scanned(n) : AtMost(v, catalog[n].default)
                      /\ Find(n, NoVersion) = {catalog[n].default}
    BY DEF ScannedDefaultIsNewest
  <2> DEFINE list == source.images
             d == catalog[n].default
  <2>1. /\ list \in ImageLists \ {Unreadable} /\ source \in Readings
        /\ catalog = Loaded(source)
    BY <1>1 DEF IInv, OneReading, Readings
  <2>2. /\ DOMAIN list = 1 .. Len(list)
        /\ \A i \in 1 .. Len(list) :
             /\ list[i] \in Images
             /\ list[i].version \in Numbers \ {NoVersion}
    BY <2>1, ImageList
  <2>3. PICK i \in 1 .. Len(list) : list[i].name = n
    <3>1. PICK v \in Scanned(n) : TRUE
      OBVIOUS
    <3>2. PICK j \in DOMAIN list : list[j] = [name |-> n, version |-> v]
      BY <3>1
    <3> QED
      BY <2>2, <3>2
  <2>4. d = Newest(list, n)
    BY <2>1, <2>3, LoadedDefault
  <2>5. PICK k \in 1 .. Len(list) : list[k].name = n /\ d = list[k].version
    BY <2>1, <2>3, <2>4, NewestIs
  <2>6. d \in DOMAIN catalog[n].versions
    BY <2>1, <2>5, LoadedDefault
  <2>7. list[k] = [name |-> n, version |-> d]
    BY <2>2, <2>5 DEF Images
  <2>8. ASSUME NEW v, NEW j \in 1 .. Len(list), list[j] = [name |-> n, version |-> v]
        PROVE  AtMost(v, d)
    <3>1. list[j].name = n /\ list[j].version = v
      BY <2>8
    <3>2. ~Newer(v, d)
      BY <2>1, <2>4, <3>1, NewestIs
    <3>3. v \in Numbers /\ d \in Numbers
      BY <2>2, <2>5, <3>1
    <3> QED
      BY <3>2, <3>3, NotNewerAtMost
  <2>9. Find(n, NoVersion) = {d}
    BY <2>2, <2>5, <2>6 DEF Find, Matches
  <2> QED
    BY <2>2, <2>6, <2>7, <2>8, <2>9
<1> QED
  BY <1>1, Invariance, PTL
=============================================================================
