---------------------------- MODULE ConfigCatalog ----------------------------
(***************************************************************************)
(* The catalog of browsers: how Load makes it from browsers.json and from  *)
(* the labels of the local images (src/config/config.go and discovery.go), *)
(* how a SIGHUP and POST /browsers/rescan reload it while both sources     *)
(* change, and how Find picks a version for a request.                     *)
(*                                                                         *)
(* A version is the sequence of its numbers, 1.10 being <<1, 10>>; what is *)
(* no number, and counts as 0 for the order, does not appear.  Of a browser*)
(* only its origin is kept.  Images that lack a label or a tag are skipped *)
(* by the scan.                                                            *)
(***************************************************************************)
EXTENDS Naturals, Sequences, SequencesExt

CONSTANTS
    Names,      \* browser names
    Versions,   \* versions of browsers: non-empty sequences of numbers
    Loads,      \* goroutines that may call Load: SIGHUP's, and one per rescan
    Discovery,  \* whether images are scanned: config.Discover # nil
    Unreadable, \* stands for a scan that fails
    MaxImages,  \* bound: labelled images on the host
    MaxEdits    \* bound: changes of the file or the images after the start

ASSUME CatalogAssumption ==
    /\ Versions \subseteq Seq(Nat) \ {<<>>}
    /\ Discovery \in BOOLEAN
    /\ MaxImages \in Nat
    /\ MaxEdits \in Nat

VARIABLES
    file,     \* what reading browsers.json gives: [err, br]
    images,   \* what a scan of the images lists, in order, or Unreadable
    catalog,  \* config.Browsers
    pc,       \* where each Load stands
    seen,     \* what each Load has read: [file, images]
    edits,    \* changes so far
    source    \* auxiliary: what the Load that stored the catalog had read

vars == <<file, images, catalog, pc, seen, edits, source>>

----------------------------------------------------------------------------
NoVersion == <<>>

\* config.Versions: the default version, and each version's browser.
Entries ==
    UNION {[default : Versions \cup {NoVersion}, versions : [S -> {"file"}]] :
             S \in SUBSET Versions}

Catalogs == UNION {[N -> Entries] : N \in SUBSET Names}

\* What loadJSON leaves in br, and whether it fails: json.Unmarshal decodes
\* what it can of a file in which some value has the wrong type, and nothing of
\* a file that is missing or no JSON.
Files == [err : BOOLEAN, br : Catalogs]

ImageLists ==
    {Unreadable} \cup BoundedSeq([name : Names, version : Versions], MaxImages)

EmptyCatalog == [n \in {} |-> NoVersion]
NothingRead == [file |-> [err |-> TRUE, br |-> EmptyCatalog],
                images |-> Unreadable]

\* segment: a missing number counts as 0.
Segment(v, i) == IF i \in DOMAIN v THEN v[i] ELSE 0

(* Plausible faults of this code, each to be put in place of a definition. *)

\* Versions compared as texts of equal length are, by their first numbers.
NewerByMajor(a, b) ==
    b = NoVersion \/ Segment(a, 1) > Segment(b, 1)

\* The default is what the image's tag says, `latest`, and not a version of it.
FromImagesByTag(list) ==
    [n \in {list[i].name : i \in DOMAIN list} |->
        [default  |-> <<0>>,
         versions |-> [v \in {list[i].version : i \in DOMAIN list} |-> "image"]]]

\* The scan wins over the file.
MergeImagesFirst(discovered, fromFile) ==
    [n \in DOMAIN discovered \cup DOMAIN fromFile |->
        IF n \in DOMAIN discovered THEN discovered[n] ELSE fromFile[n]]

----------------------------------------------------------------------------
\* Versions are compared number by number, so 1.10 is newer than 1.9.
Newer(a, b) ==
    \/ b = NoVersion
    \/ \E i \in DOMAIN a \cup DOMAIN b :
         /\ Segment(a, i) > Segment(b, i)
         /\ \A j \in 1 .. i - 1 : Segment(a, j) = Segment(b, j)

\* The default of n after each image of the list: the newest version so far.
Newest(list, n) ==
    LET after[i \in 0 .. Len(list)] ==
          IF i = 0 THEN NoVersion
          ELSE IF list[i].name = n /\ Newer(list[i].version, after[i - 1])
               THEN list[i].version ELSE after[i - 1]
    IN  after[Len(list)]

\* browsersFromImages: every labelled version, the newest as the default.
FromImages(list) ==
    LET Of(n) == {i \in DOMAIN list : list[i].name = n} IN
    [n \in {list[i].name : i \in DOMAIN list} |->
        [default  |-> Newest(list, n),
         versions |-> [v \in {list[i].version : i \in Of(n)} |-> "image"]]]

\* merge: the file's entries are laid over the scan's.
Overlay(found, fromFile) ==
    [default  |-> IF fromFile.default # NoVersion THEN fromFile.default
                  ELSE found.default,
     versions |-> [v \in DOMAIN found.versions \cup DOMAIN fromFile.versions |->
                    IF v \in DOMAIN fromFile.versions THEN fromFile.versions[v]
                    ELSE found.versions[v]]]

Merge(discovered, fromFile) ==
    [n \in DOMAIN discovered \cup DOMAIN fromFile |->
        CASE n \notin DOMAIN discovered -> fromFile[n]
          [] n \notin DOMAIN fromFile -> discovered[n]
          [] OTHER -> Overlay(discovered[n], fromFile[n])]

\* What a Load that has read s makes of it, before it decides to store it: a
\* file that cannot be decoded counts for what was decoded.
Loaded(s) ==
    IF ~Discovery \/ s.images = Unreadable THEN s.file.br
    ELSE Merge(FromImages(s.images), s.file.br)

\* Load gives up: the file cannot be read, and there is no scan to do without
\* it or no browser at all.
Refuses(s) == s.file.err /\ (~Discovery \/ Loaded(s) = EmptyCatalog)

----------------------------------------------------------------------------
\* How many digits n has, written down.
Digits[n \in Nat] == IF n < 10 THEN 1 ELSE 1 + Digits[n \div 10]

\* The text of version a is a prefix of that of b: the numbers before its last
\* agree, and its last begins the number b has there (1.1 and 1.10).
NumberPrefix(m, n) == \E d \in 0 .. Digits[n] - 1 : m = n \div 10 ^ d
TextPrefix(a, b) ==
    LET k == Len(a) IN
    /\ k <= Len(b)
    /\ SubSeq(a, 1, k - 1) = SubSeq(b, 1, k - 1)
    /\ NumberPrefix(a[k], b[k])

\* Characters in the text of v: its digits and the dots between them.
TextLen(v) == FoldLeft(LAMBDA n, k : n + Digits[k], Len(v) - 1, v)

\* The versions Find may return for version v: the exact key, or the first of
\* the longest keys that start with v, in the order the map is iterated in.
Matches(versions, v) ==
    LET starts == {k \in DOMAIN versions : TextPrefix(v, k)} IN
    IF v \in DOMAIN versions THEN {v}
    ELSE {k \in starts : \A other \in starts : TextLen(k) >= TextLen(other)}

\* Find: no version means the default one; none at all, no browser.
Find(n, v) ==
    IF n \notin DOMAIN catalog THEN {}
    ELSE LET wanted == IF v = NoVersion THEN catalog[n].default ELSE v IN
         IF wanted = NoVersion THEN {}
         ELSE Matches(catalog[n].versions, wanted)

----------------------------------------------------------------------------
\* init calls Load before the hub listens, and gives up if it fails.
Init ==
    /\ file \in Files
    /\ images \in ImageLists
    /\ source = [file |-> file, images |-> images]
    /\ ~Refuses(source)
    /\ catalog = Loaded(source)
    /\ pc = [l \in Loads |-> "idle"]
    /\ seen = [l \in Loads |-> NothingRead]
    /\ edits = 0

\* The operator edits or breaks the file; images are pulled or removed, or
\* Docker stops answering.
Edit ==
    /\ edits < MaxEdits
    /\ edits' = edits + 1
    /\ \/ file' \in Files /\ UNCHANGED images
       \/ images' \in ImageLists /\ UNCHANGED file
    /\ UNCHANGED <<catalog, pc, seen, source>>

\* SIGHUP or a rescan: Load reads the file...
ReadFile(l) ==
    /\ pc[l] = "idle"
    /\ pc' = [pc EXCEPT ![l] = "scanning"]
    /\ seen' = [seen EXCEPT ![l].file = file]
    /\ UNCHANGED <<file, images, catalog, edits, source>>

\* ...scans the images...
Scan(l) ==
    /\ pc[l] = "scanning"
    /\ pc' = [pc EXCEPT ![l] = "storing"]
    /\ seen' = [seen EXCEPT ![l].images = images]
    /\ UNCHANGED <<file, images, catalog, edits, source>>

EndLoad(l) ==
    /\ pc[l] = "storing"
    /\ pc' = [pc EXCEPT ![l] = "idle"]
    /\ seen' = [seen EXCEPT ![l] = NothingRead]
    /\ UNCHANGED <<file, images, edits>>

\* A failing reload keeps the catalog (a fault: it stores what it has).
GiveUpStores(l) ==
    /\ EndLoad(l)
    /\ catalog' = Loaded(seen[l])
    /\ source' = seen[l]

\* ...and stores the result under the lock, or gives up and keeps what is
\* there.  The second also happens when the log configuration is broken.
Store(l) ==
    /\ EndLoad(l)
    /\ ~Refuses(seen[l])
    /\ catalog' = Loaded(seen[l])
    /\ source' = seen[l]

GiveUp(l) ==
    /\ EndLoad(l)
    /\ UNCHANGED <<catalog, source>>

Next ==
    \/ Edit
    \/ \E l \in Loads : ReadFile(l) \/ Scan(l) \/ Store(l) \/ GiveUp(l)

Spec == Init /\ [][Next]_vars

----------------------------------------------------------------------------
\* Every variable holds a value of its type; a catalog names an origin for
\* each of its versions.
TypeOK ==
    /\ file \in Files
    /\ images \in ImageLists
    /\ pc \in [Loads -> {"idle", "scanning", "storing"}]
    /\ seen \in [Loads -> [file : Files, images : ImageLists]]
    /\ edits \in 0 .. MaxEdits
    /\ DOMAIN catalog \subseteq Names
    /\ \A n \in DOMAIN catalog :
         /\ catalog[n].default \in Versions \cup {NoVersion}
         /\ DOMAIN catalog[n].versions \subseteq Versions

\* What was decoded of browsers.json is what is served, whatever the scan found
\* ("browsers.json always wins", merge): its browsers, and its default.
FileWins ==
    LET br == source.file.br IN
    \A n \in DOMAIN br :
        /\ n \in DOMAIN catalog
        /\ \A v \in DOMAIN br[n].versions : catalog[n].versions[v] = "file"
        /\ br[n].default \in {NoVersion, catalog[n].default}

\* Version a is at most b: before any number of a that is greater than b's there
\* is one that is less.
AtMost(a, b) ==
    \A i \in DOMAIN a : Segment(a, i) > Segment(b, i) =>
        \E j \in 1 .. i - 1 : Segment(a, j) < Segment(b, j)

\* A default that comes from the scan is the newest version the scan found, by
\* the order of numbers (newer), and it can be served.
ScannedDefaultIsNewest ==
    \A n \in DOMAIN catalog :
        LET br == source.file.br
            scanned == {v \in DOMAIN catalog[n].versions :
                          \E i \in DOMAIN source.images :
                              source.images[i] = [name |-> n, version |-> v]}
        IN  (/\ Discovery /\ source.images # Unreadable /\ scanned # {}
             /\ n \notin DOMAIN br \/ br[n].default = NoVersion)
            => /\ catalog[n].default \in scanned
               /\ \A v \in scanned : AtMost(v, catalog[n].default)
               /\ Find(n, NoVersion) = {catalog[n].default}

\* A reload that gets nothing from the images and nothing but an error from the
\* file keeps the catalog: the grid is never emptied by an outage of both
\* (Load).  A file of which something can be decoded is no outage, and a valid
\* file without browsers is obeyed.
OutageKeepsCatalog ==
    [][catalog' # catalog =>
         \/ ~source'.file.err
         \/ source'.file.br # EmptyCatalog
         \/ Discovery /\ source'.images \notin {Unreadable, <<>>}]_vars

\* The comment in Find: map iteration order never decides the match.
FindIsDetermined ==
    \A n \in DOMAIN catalog, v \in Versions :
        \A a, b \in Find(n, v) : a = b
=============================================================================
