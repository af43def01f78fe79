---------------------------- MODULE PackageProofs ----------------------------
(***************************************************************************)
(* Proofs about the package tool.  Packages, for every tree of packages    *)
(* and every order of edits and commands: a build that succeeds compiles   *)
(* what the package needs, each once, and uinx.lock names all of it.       *)
(* Formatter, for every file: formatting it settles at once and keeps the  *)
(* steps of its indentation.                                               *)
(***************************************************************************)
EXTENDS Packages, Formatter, WellFoundedInduction, TLAPS

Packs(s) == {s[i] : i \in DOMAIN s}
Dirs == UNION {DOMAIN t : t \in Trees}

DepNames == UNION {UNION {DOMAIN t[d] : d \in DOMAIN t} : t \in Trees}
Frames == [dir : DOMAIN tree, rest : SUBSET DepNames]

TypeOK ==
    /\ tree \in Trees
    /\ command \in {"idle", "build", "fetch"}
    /\ walk \in Seq(Frames)
    /\ command = "idle" <=> walk = <<>>
    /\ visited \in SUBSET Dirs
    /\ sources \in Seq(Dirs) /\ lock \in Seq(Dirs)
    /\ built \in BOOLEAN /\ fetched \in BOOLEAN

(* A name a frame of the recursion has still to come to.                    *)
ToCome(d, n) == \E k \in DOMAIN walk : walk[k].dir = d /\ n \in walk[k].rest
Skipped(d) == IF d = Root THEN disabled_dependencies ELSE {}
Once(s) == \A i, j \in DOMAIN s : s[i] = s[j] => i = j

(* The walk of a build: it has noted what it took, nothing else, and every  *)
(* dependency of what it took is taken or to come.                          *)
Collecting ==
    /\ ~built /\ Packs(sources) = visited /\ Once(sources)
    /\ Root \in visited /\ visited \subseteq Needed
    /\ \A k \in DOMAIN walk : /\ walk[k].dir \in visited
                              /\ walk[k].rest \subseteq DOMAIN tree[walk[k].dir] \ Skipped(walk[k].dir)
    /\ \A d \in visited : \A n \in DOMAIN tree[d] \ Skipped(d) : tree[d][n] \in visited \/ ToCome(d, n)

(* The walk of fetch: the root is written first, and noted when it is found *)
(* again; a path that does not resolve is left out.                         *)
Writing ==
    /\ ~fetched /\ Packs(lock) = visited \cup {Root} /\ visited \subseteq DOMAIN tree
    /\ \A k \in DOMAIN walk : /\ walk[k].dir \in visited \cup {Root}
                              /\ walk[k].rest \subseteq DOMAIN tree[walk[k].dir]
    /\ \A d \in visited \cup {Root} : \A n \in DOMAIN tree[d] :
          tree[d][n] \in visited \cup {NoPath} \/ ToCome(d, n)

(* What the commands leave behind.                                          *)
Collected == /\ Packs(sources) = Needed /\ Once(sources)
             /\ \A d \in Needed : Needs(d) \subseteq Needed
Written == /\ Root \in Packs(lock) /\ Packs(lock) \subseteq DOMAIN tree
           /\ \A d \in Packs(lock) : \A n \in DOMAIN tree[d] : tree[d][n] \in Packs(lock) \cup {NoPath}

PackageInv == /\ TypeOK
              /\ command = "build" => Collecting
              /\ command = "fetch" => Writing
              /\ built => Collected
              /\ fetched => Written
-----------------------------------------------------------------------------
(* Induction over the naturals, for a set in place of a predicate.          *)
LEMMA Least ==
    ASSUME NEW T \in SUBSET Nat, T # {}
    PROVE  \E n \in T : \A m \in T : n <= m
  <1>1. PICK R : R = OpToRel(<, Nat)
    OBVIOUS
  <1>2. IsWellFoundedOn(R, Nat)
    BY <1>1, NatLessThanWellFounded
  <1>3. PICK n \in T : \A m \in T : ~(<<m, n>> \in R)
    BY <1>2, WFMin
  <1>4. \A m \in T : ~(m < n)
    BY <1>1, <1>3 DEF OpToRel
  <1>5. QED
    BY <1>4

LEMMA SetInduction ==
    ASSUME NEW T \in SUBSET Nat, 0 \in T, \A n \in T : n + 1 \in T
    PROVE  T = Nat
  <1> SUFFICES ASSUME Nat \ T # {} PROVE FALSE
    OBVIOUS
  <1>1. PICK n \in Nat \ T : \A m \in Nat \ T : n <= m
    BY Least
  <1>2. n # 0 /\ n - 1 \in Nat /\ n - 1 \in T
    BY <1>1
  <1>3. QED
    BY <1>1, <1>2

LEMMA EmptySequence ==
    ASSUME NEW S
    PROVE  <<>> \in Seq(S)
  OBVIOUS

LEMMA NamesOf ==
    ASSUME tree \in Trees, NEW d \in DOMAIN tree
    PROVE  DOMAIN tree[d] \subseteq DepNames
  <1>1. PICK t \in Trees : t = tree
    OBVIOUS
  <1>2. DOMAIN t[d] \subseteq UNION {DOMAIN t[e] : e \in DOMAIN t}
    BY <1>1
  <1>3. QED
    BY <1>1, <1>2 DEF DepNames

LEMMA InnermostFrame ==
    ASSUME TypeOK, walk # <<>>
    PROVE  /\ Len(walk) \in Nat \ {0} /\ DOMAIN walk = 1..Len(walk)
           /\ Innermost \in Frames
           /\ Innermost.dir \in DOMAIN tree /\ Innermost.rest \subseteq DepNames
  <1>1. Innermost \in Frames /\ Len(walk) \in Nat \ {0} /\ DOMAIN walk = 1..Len(walk)
    BY DEF TypeOK, Innermost
  <1>2. QED
    BY <1>1 DEF Frames

(* What Continue does to the recursion: one name less in the last frame.    *)
OneLess(name, c) ==
    /\ c \in Seq(Frames) /\ Len(c) = Len(walk) /\ Len(walk) \in Nat \ {0}
    /\ DOMAIN c = 1..Len(walk) /\ DOMAIN walk = 1..Len(walk)
    /\ \A k \in 1..Len(walk) :
          /\ c[k].dir = walk[k].dir
          /\ c[k].rest = IF k = Len(walk) THEN walk[k].rest \ {name} ELSE walk[k].rest

LEMMA Continued ==
    ASSUME NEW name, TypeOK, walk # <<>>
    PROVE  OneLess(name, Advance(name))
  <1>1. PICK n : n = Len(walk)
    OBVIOUS
  <1>2. PICK x : x = [dir |-> Innermost.dir, rest |-> Innermost.rest \ {name}]
    OBVIOUS
  <1>3. x \in Frames /\ x.dir = Innermost.dir /\ x.rest = Innermost.rest \ {name}
    BY <1>2, InnermostFrame DEF Frames
  <1>4. Advance(name) = [walk EXCEPT ![n] = x]
    BY <1>1, <1>2 DEF Advance, Innermost
  <1>5. walk \in Seq(Frames) /\ n \in Nat \ {0} /\ n \in 1..Len(walk)
    BY <1>1, InnermostFrame DEF TypeOK
  <1>6. Advance(name) \in Seq(Frames) /\ Len(Advance(name)) = n /\ DOMAIN Advance(name) = 1..n
    BY <1>1, <1>3, <1>4, <1>5
  <1>7. \A k \in 1..n : Advance(name)[k] = IF k = n THEN x ELSE walk[k]
    BY <1>1, <1>4, <1>5
  <1>8. QED
    BY <1>1, <1>3, <1>5, <1>6, <1>7, InnermostFrame DEF Innermost, OneLess

LEMMA SameNeeds ==
    ASSUME UNCHANGED files
    PROVE  /\ Needed' = Needed
           /\ disabled_dependencies' = disabled_dependencies
           /\ \A d : Needs(d)' = Needs(d)
           /\ \A d : Skipped(d)' = Skipped(d)
  <1>1. disabled_dependencies' = disabled_dependencies
    BY DEF files, disabled_dependencies
  <1>2. \A d : Needs(d)' = Needs(d)
    BY <1>1 DEF files, Needs
  <1>3. QED
    BY <1>1, <1>2 DEF files, Needed, Skipped

LEMMA Appended ==
    ASSUME NEW S, NEW s \in Seq(S), NEW x
    PROVE  /\ Packs(Append(s, x)) = Packs(s) \cup {x}
           /\ x \notin Packs(s) /\ Once(s) => Once(Append(s, x))
  <1>1. PICK n : n = Len(s)
    OBVIOUS
  <1>2. PICK t : t = Append(s, x)
    OBVIOUS
  <1>3. n \in Nat /\ DOMAIN s = 1..n /\ DOMAIN t = 1..(n + 1)
    BY <1>1, <1>2
  <1>4. t[n + 1] = x /\ \A i \in 1..n : t[i] = s[i]
    BY <1>1, <1>2
  <1>5. Packs(t) = Packs(s) \cup {x}
    BY <1>3, <1>4 DEF Packs
  <1>6. ASSUME x \notin Packs(s), Once(s) PROVE Once(t)
    BY <1>3, <1>4, <1>6 DEF Packs, Once
  <1>7. QED
    BY <1>2, <1>5, <1>6

(* The path of the next dependency: one of the manifest that is walked.     *)
LEMMA NextPath ==
    ASSUME PackageAssumption, TypeOK, walk # <<>>, NEW name \in Innermost.rest,
           Innermost.rest \subseteq DOMAIN tree[Innermost.dir]
    PROVE  /\ name \in DOMAIN tree[Innermost.dir]
           /\ Path(name) \in DOMAIN tree \cup {NoPath}
           /\ NoPath \notin DOMAIN tree
  <1>1. name \in DOMAIN tree[Innermost.dir]
    OBVIOUS
  <1>2. Innermost.dir \in DOMAIN tree /\ tree \in Trees
    BY InnermostFrame DEF TypeOK
  <1>3. QED
    BY <1>1, <1>2 DEF PackageAssumption, Path

(* The recursion after one dependency: entered, or not.                     *)
LEMMA WalkOn ==
    ASSUME NEW name, TypeOK, walk # <<>>, UNCHANGED files,
           \/ walk' = Advance(name)
           \/ \E x \in Frames : walk' = Append(Advance(name), x)
    PROVE  /\ walk' \in Seq(Frames') /\ walk' # <<>>
           /\ \A k \in DOMAIN walk' :
                 \/ /\ k \in DOMAIN walk /\ walk'[k].dir = walk[k].dir
                    /\ walk'[k].rest \subseteq walk[k].rest
                 \/ walk' = Append(Advance(name), walk'[k])
           /\ \A d, n : ToCome(d, n) => ToCome(d, n)' \/ (d = Innermost.dir /\ n = name)
  <1>1. PICK c : c = Advance(name)
    OBVIOUS
  <1>2. PICK n \in Nat \ {0} : n = Len(walk)
    BY InnermostFrame
  <1>3. /\ c \in Seq(Frames) /\ Len(c) = n /\ walk \in Seq(Frames) /\ DOMAIN walk = 1..n
        /\ DOMAIN c = 1..n
        /\ \A k \in 1..n : /\ c[k].dir = walk[k].dir
                            /\ c[k].rest = IF k = n THEN walk[k].rest \ {name} ELSE walk[k].rest
    <2>1. OneLess(name, c)
      BY <1>1, Continued
    <2>2. walk \in Seq(Frames)
      BY DEF TypeOK
    <2>3. QED
      BY <1>2, <2>1, <2>2 DEF OneLess
  <1>4. Frames' = Frames
    BY DEF files, Frames
  <1>5. /\ walk' \in Seq(Frames) /\ walk' # <<>> /\ DOMAIN c \subseteq DOMAIN walk'
        /\ \A k \in DOMAIN walk' : (k \in 1..n /\ walk'[k] = c[k]) \/ walk' = Append(c, walk'[k])
        /\ \A k \in 1..n : walk'[k] = c[k]
    <2>1. CASE walk' = c
      BY <1>2, <1>3, <2>1
    <2>2. CASE \E x \in Frames : walk' = Append(c, x)
      <3>1. PICK x \in Frames : walk' = Append(c, x)
        BY <2>2
      <3>2. PICK w : w = Append(c, x)
        OBVIOUS
      <3>3. w \in Seq(Frames) /\ Len(w) = n + 1 /\ DOMAIN w = 1..(n + 1)
        BY <1>2, <1>3, <3>2
      <3>4. w[n + 1] = x /\ \A k \in 1..n : w[k] = c[k]
        BY <1>2, <1>3, <3>2
      <3>5. walk' = w
        BY <3>1, <3>2
      <3>6. QED
        BY <1>2, <1>3, <3>2, <3>3, <3>4, <3>5
    <2>3. QED
      BY <1>1, <2>1, <2>2
  <1>6. \A k \in DOMAIN walk' :
                 \/ /\ k \in DOMAIN walk /\ walk'[k].dir = walk[k].dir
                    /\ walk'[k].rest \subseteq walk[k].rest
                 \/ walk' = Append(Advance(name), walk'[k])
    BY <1>1, <1>3, <1>5
  <1>7. ASSUME NEW d, NEW m, ToCome(d, m) PROVE ToCome(d, m)' \/ (d = Innermost.dir /\ m = name)
    <2>1. PICK k \in 1..n : walk[k].dir = d /\ m \in walk[k].rest
      BY <1>3, <1>7 DEF ToCome
    <2>2. k \in DOMAIN walk' /\ walk'[k].dir = d
      BY <1>3, <1>5, <2>1
    <2>3. m \in walk'[k].rest \/ (k = n /\ m = name)
      BY <1>3, <1>5, <2>1
    <2>4. QED
      BY <1>2, <2>1, <2>2, <2>3 DEF ToCome, Innermost
  <1>8. QED
    BY <1>4, <1>5, <1>6, <1>7

(* A build takes one dependency.                                            *)
LEMMA CollectKeeps ==
    ASSUME PackageAssumption, PackageInv, walk # <<>>, NEW name \in Innermost.rest, Collect(name)
    PROVE  PackageInv'
  <1>1. /\ TypeOK /\ Collecting /\ command = "build" /\ walk # <<>>
        /\ UNCHANGED <<files, lock>> /\ UNCHANGED files /\ tree' = tree
        /\ fetched => Written
    BY DEF PackageInv, Collect, InCommand, files
  <1>2. /\ Innermost.dir \in visited /\ Innermost.dir \in DOMAIN tree
        /\ Innermost.rest \subseteq DOMAIN tree[Innermost.dir] \ Skipped(Innermost.dir)
    BY <1>1, InnermostFrame DEF Collecting, Innermost
  <1>3. /\ name \in Innermost.rest /\ name \in DOMAIN tree[Innermost.dir] \ Skipped(Innermost.dir)
        /\ Path(name) \in DOMAIN tree \cup {NoPath} /\ NoPath \notin DOMAIN tree
    BY <1>1, <1>2, NextPath
  <1>4. Written' = Written
    BY <1>1 DEF Written, files, Packs
  <1>5. CASE Finish("build", FALSE) /\ UNCHANGED <<visited, sources>>
    <2>1. command' = "idle" /\ walk' = <<>> /\ built' = FALSE /\ fetched' = fetched
      BY <1>5 DEF Finish
    <2>2. Frames' = Frames
      BY <1>1 DEF Frames, files
    <2>3. TypeOK'
      <3>1. lock' = lock /\ sources' = sources /\ visited' = visited /\ walk' \in Seq(Frames)
        BY <1>1, <1>5, <2>1
      <3>2. QED
        BY <1>1, <2>1, <2>2, <3>1 DEF TypeOK
    <2>4. QED
      BY <1>1, <1>4, <2>1, <2>3 DEF PackageInv
  <1>6. CASE /\ Path(name) \in visited
             /\ walk' = Advance(name) /\ UNCHANGED <<command, built, fetched, visited, sources>>
    <2>0. OneLess(name, walk')
      BY <1>1, <1>6, Continued
    <2>1. TypeOK'
      <3>1. walk' \in Seq(Frames') /\ walk' # <<>>
        BY <1>1, <1>6, WalkOn
      <3>2. QED
        BY <1>1, <1>6, <3>1 DEF TypeOK
    <2>2. \A k \in DOMAIN walk' : /\ walk'[k].dir \in visited
                                   /\ walk'[k].rest \subseteq DOMAIN tree[walk'[k].dir] \ Skipped(walk'[k].dir)
      <3>1. DOMAIN walk' = DOMAIN walk
        BY <1>6, <2>0 DEF OneLess
      <3>2. \A k \in DOMAIN walk : walk'[k].dir = walk[k].dir /\ walk'[k].rest \subseteq walk[k].rest
        BY <1>6, <2>0 DEF OneLess
      <3>3. QED
        BY <1>1, <3>1, <3>2 DEF Collecting
    <2>3. \A d \in visited : \A n \in DOMAIN tree[d] \ Skipped(d) : tree[d][n] \in visited \/ ToCome(d, n)'
      <3>1. \A d, n : ToCome(d, n) => ToCome(d, n)' \/ (d = Innermost.dir /\ n = name)
        BY <1>1, <1>6, WalkOn
      <3>2. tree[Innermost.dir][name] \in visited
        BY <1>6 DEF Path
      <3>3. QED
        BY <1>1, <3>1, <3>2 DEF Collecting
    <2>4. Collecting'
      BY <1>1, <1>6, <2>2, <2>3, SameNeeds DEF Collecting
    <2>5. QED
      BY <1>1, <1>4, <1>6, <2>1, <2>4 DEF PackageInv, Collecting
  <1>7. CASE /\ Path(name) # NoPath /\ Path(name) \notin visited /\ visited' = visited \cup {Path(name)}
             /\ sources' = Append(sources, Path(name))
             /\ walk' = Append(Advance(name), Level(Path(name), {}))
             /\ UNCHANGED <<command, built, fetched>>
    <2>1. PICK p : p = Path(name)
      OBVIOUS
    <2>2. p \in DOMAIN tree /\ p # Root /\ p \notin visited /\ Skipped(p) = {}
      BY <1>1, <1>3, <1>7, <2>1 DEF Collecting, Skipped
    <2>3. PICK x : x = Level(p, {})
      OBVIOUS
    <2>4. x.dir = p /\ x.rest = DOMAIN tree[p] /\ x \in Frames
      BY <1>1, <2>2, <2>3, NamesOf DEF Level, Frames, TypeOK
    <2>5. walk' = Append(Advance(name), x) /\ visited' = visited \cup {p} /\ sources' = Append(sources, p)
      BY <1>7, <2>1, <2>3
    <2>6. p \in Dirs
      BY <1>1, <2>2 DEF TypeOK, Dirs
    <2>7. sources' \in Seq(Dirs)
      BY <1>1, <2>5, <2>6 DEF TypeOK
    <2>8. walk' \in Seq(Frames') /\ walk' # <<>>
      BY <1>1, <2>4, <2>5, WalkOn
    <2>9. TypeOK'
      BY <1>1, <1>7, <2>5, <2>6, <2>7, <2>8 DEF TypeOK
    <2>10. Packs(sources') = visited' /\ Once(sources')
      BY <1>1, <2>2, <2>5, Appended DEF TypeOK, Collecting
    <2>11. p \in Needed
      <3>1. p \in Needs(Innermost.dir)
        BY <1>3, <2>1 DEF Needs, Path, Skipped
      <3>2. Innermost.dir \in Needed
        BY <1>1, <1>2 DEF Collecting
      <3>3. QED
        BY <2>2, <3>1, <3>2 DEF Needed
    <2>12. \A k \in DOMAIN walk' : /\ walk'[k].dir \in visited'
                                    /\ walk'[k].rest \subseteq DOMAIN tree[walk'[k].dir] \ Skipped(walk'[k].dir)
      <3> SUFFICES ASSUME NEW k \in DOMAIN walk'
                   PROVE  /\ walk'[k].dir \in visited'
                          /\ walk'[k].rest \subseteq DOMAIN tree[walk'[k].dir] \ Skipped(walk'[k].dir)
        OBVIOUS
      <3>1. \/ /\ k \in DOMAIN walk /\ walk'[k].dir = walk[k].dir
               /\ walk'[k].rest \subseteq walk[k].rest
            \/ walk'[k] = x
        <4>1. PICK c \in Seq(Frames) : c = Advance(name)
          BY <1>1, Continued DEF OneLess
        <4>2. \A y : Append(c, y) = Append(c, x) => y = x
          BY <4>1, <2>4
        <4>3. QED
          BY <1>1, <2>4, <2>5, <4>1, <4>2, WalkOn
      <3>2. CASE k \in DOMAIN walk /\ walk'[k].dir = walk[k].dir /\ walk'[k].rest \subseteq walk[k].rest
        BY <1>1, <2>5, <3>2 DEF Collecting
      <3>3. CASE walk'[k] = x
        BY <2>2, <2>4, <2>5, <3>3
      <3>4. QED
        BY <3>1, <3>2, <3>3
    <2>13. \A d \in visited' : \A n \in DOMAIN tree[d] \ Skipped(d) : tree[d][n] \in visited' \/ ToCome(d, n)'
      <3>1. \A d, n : ToCome(d, n) => ToCome(d, n)' \/ (d = Innermost.dir /\ n = name)
        BY <1>1, <2>4, <2>5, WalkOn
      <3>2. tree[Innermost.dir][name] \in visited'
        BY <2>1, <2>5 DEF Path
      <3>3. \A n \in DOMAIN tree[p] : ToCome(p, n)'
        <4>1. PICK c \in Seq(Frames) : c = Advance(name)
          BY <1>1, Continued DEF OneLess
        <4>2. Append(c, x)[Len(c) + 1] = x /\ Len(c) + 1 \in DOMAIN Append(c, x)
          BY <4>1, <2>4
        <4>3. \E k \in DOMAIN walk' : walk'[k] = x
          BY <2>5, <4>1, <4>2
        <4>4. QED
          BY <2>4, <4>3 DEF ToCome
      <3>4. QED
        BY <1>1, <2>5, <3>1, <3>2, <3>3 DEF Collecting
    <2>14. Collecting'
      BY <1>1, <1>7, <2>5, <2>10, <2>11, <2>12, <2>13, SameNeeds DEF Collecting
    <2>15. QED
      BY <1>1, <1>4, <1>7, <2>9, <2>14 DEF PackageInv, Collecting
  <1>8. QED
    BY <1>5, <1>6, <1>7 DEF Collect

(* fetch writes one dependency.                                             *)
LEMMA WriteLockKeeps ==
    ASSUME PackageAssumption, PackageInv, walk # <<>>, NEW name \in Innermost.rest, WriteLock(name)
    PROVE  PackageInv'
  <1>1. /\ TypeOK /\ Writing /\ command = "fetch" /\ walk # <<>>
        /\ UNCHANGED <<files, sources>> /\ UNCHANGED files /\ tree' = tree
        /\ built => Collected
    BY DEF PackageInv, WriteLock, InCommand, files
  <1>2. /\ Innermost.dir \in visited \cup {Root} /\ Innermost.dir \in DOMAIN tree
        /\ Innermost.rest \subseteq DOMAIN tree[Innermost.dir]
    BY <1>1, InnermostFrame DEF Writing, Innermost
  <1>3. /\ name \in Innermost.rest /\ name \in DOMAIN tree[Innermost.dir]
        /\ Path(name) \in DOMAIN tree \cup {NoPath} /\ NoPath \notin DOMAIN tree
    BY <1>1, <1>2, NextPath
  <1>4. Collected' = Collected
    BY <1>1, SameNeeds DEF Collected, Packs, Once
  <1>5. CASE Finish("fetch", FALSE) /\ UNCHANGED <<visited, lock>>
    <2>1. command' = "idle" /\ walk' = <<>> /\ fetched' = FALSE /\ built' = built
      BY <1>5 DEF Finish
    <2>2. Frames' = Frames
      BY <1>1 DEF Frames, files
    <2>3. walk' \in Seq(Frames')
      BY <2>1, EmptySequence
    <2>4. TypeOK'
      BY <1>1, <1>5, <2>1, <2>2, <2>3 DEF TypeOK
    <2>5. QED
      BY <1>1, <1>4, <2>1, <2>4 DEF PackageInv
  <1>6. CASE /\ Path(name) = NoPath \/ Path(name) \in visited
             /\ walk' = Advance(name) /\ UNCHANGED <<command, built, fetched, visited, lock>>
    <2>0. OneLess(name, walk')
      BY <1>1, <1>6, Continued
    <2>1. TypeOK'
      <3>1. walk' \in Seq(Frames') /\ walk' # <<>>
        BY <1>1, <1>6, WalkOn
      <3>2. QED
        BY <1>1, <1>6, <3>1 DEF TypeOK
    <2>2. \A k \in DOMAIN walk' : /\ walk'[k].dir \in visited \cup {Root}
                                   /\ walk'[k].rest \subseteq DOMAIN tree[walk'[k].dir]
      <3>1. DOMAIN walk' = DOMAIN walk
        BY <1>6, <2>0 DEF OneLess
      <3>2. \A k \in DOMAIN walk : walk'[k].dir = walk[k].dir /\ walk'[k].rest \subseteq walk[k].rest
        BY <1>6, <2>0 DEF OneLess
      <3>3. QED
        BY <1>1, <3>1, <3>2 DEF Writing
    <2>3. \A d \in visited \cup {Root} : \A n \in DOMAIN tree[d] :
             tree[d][n] \in visited \cup {NoPath} \/ ToCome(d, n)'
      <3>1. \A d, n : ToCome(d, n) => ToCome(d, n)' \/ (d = Innermost.dir /\ n = name)
        BY <1>1, <1>6, WalkOn
      <3>2. tree[Innermost.dir][name] \in visited \cup {NoPath}
        BY <1>6 DEF Path
      <3>3. QED
        BY <1>1, <3>1, <3>2 DEF Writing
    <2>4. Writing'
      BY <1>1, <1>6, <2>2, <2>3 DEF Writing
    <2>5. QED
      BY <1>1, <1>4, <1>6, <2>1, <2>4 DEF PackageInv, Writing
  <1>7. CASE /\ Path(name) # NoPath /\ Path(name) \notin visited /\ visited' = visited \cup {Path(name)}
             /\ lock' = Append(lock, Path(name))
             /\ walk' = Append(Advance(name), Level(Path(name), {}))
             /\ UNCHANGED <<command, built, fetched>>
    <2>1. PICK p : p = Path(name)
      OBVIOUS
    <2>2. p \in DOMAIN tree
      BY <1>1, <1>3, <1>7, <2>1
    <2>3. PICK x : x = Level(p, {})
      OBVIOUS
    <2>4. x.dir = p /\ x.rest = DOMAIN tree[p] /\ x \in Frames
      BY <1>1, <2>2, <2>3, NamesOf DEF Level, Frames, TypeOK
    <2>5. walk' = Append(Advance(name), x) /\ visited' = visited \cup {p} /\ lock' = Append(lock, p)
      BY <1>7, <2>1, <2>3
    <2>6. p \in Dirs
      BY <1>1, <2>2 DEF TypeOK, Dirs
    <2>7. lock' \in Seq(Dirs)
      BY <1>1, <2>5, <2>6 DEF TypeOK
    <2>8. walk' \in Seq(Frames') /\ walk' # <<>>
      BY <1>1, <2>4, <2>5, WalkOn
    <2>9. TypeOK'
      BY <1>1, <1>7, <2>5, <2>6, <2>7, <2>8 DEF TypeOK
    <2>10. Packs(lock') = visited' \cup {Root}
      BY <1>1, <2>2, <2>5, Appended DEF TypeOK, Writing
    <2>11. \A k \in DOMAIN walk' : /\ walk'[k].dir \in visited' \cup {Root}
                                    /\ walk'[k].rest \subseteq DOMAIN tree[walk'[k].dir]
      <3> SUFFICES ASSUME NEW k \in DOMAIN walk'
                   PROVE  /\ walk'[k].dir \in visited' \cup {Root}
                          /\ walk'[k].rest \subseteq DOMAIN tree[walk'[k].dir]
        OBVIOUS
      <3>1. \/ /\ k \in DOMAIN walk /\ walk'[k].dir = walk[k].dir
               /\ walk'[k].rest \subseteq walk[k].rest
            \/ walk'[k] = x
        <4>1. PICK c \in Seq(Frames) : c = Advance(name)
          BY <1>1, Continued DEF OneLess
        <4>2. \A y : Append(c, y) = Append(c, x) => y = x
          BY <4>1, <2>4
        <4>3. QED
          BY <1>1, <2>4, <2>5, <4>1, <4>2, WalkOn
      <3>2. CASE k \in DOMAIN walk /\ walk'[k].dir = walk[k].dir /\ walk'[k].rest \subseteq walk[k].rest
        BY <1>1, <2>5, <3>2 DEF Writing
      <3>3. CASE walk'[k] = x
        BY <2>2, <2>4, <2>5, <3>3
      <3>4. QED
        BY <3>1, <3>2, <3>3
    <2>12. \A d \in visited' \cup {Root} : \A n \in DOMAIN tree[d] :
              tree[d][n] \in visited' \cup {NoPath} \/ ToCome(d, n)'
      <3>1. \A d, n : ToCome(d, n) => ToCome(d, n)' \/ (d = Innermost.dir /\ n = name)
        BY <1>1, <2>4, <2>5, WalkOn
      <3>2. tree[Innermost.dir][name] \in visited'
        BY <2>1, <2>5 DEF Path
      <3>3. \A n \in DOMAIN tree[p] : ToCome(p, n)'
        <4>1. PICK c \in Seq(Frames) : c = Advance(name)
          BY <1>1, Continued DEF OneLess
        <4>2. Append(c, x)[Len(c) + 1] = x /\ Len(c) + 1 \in DOMAIN Append(c, x)
          BY <4>1, <2>4
        <4>3. \E k \in DOMAIN walk' : walk'[k] = x
          BY <2>5, <4>1, <4>2
        <4>4. QED
          BY <2>4, <4>3 DEF ToCome
      <3>4. QED
        BY <1>1, <2>5, <3>1, <3>2, <3>3 DEF Writing
    <2>13. Writing'
      BY <1>1, <1>7, <2>2, <2>5, <2>10, <2>11, <2>12 DEF Writing
    <2>14. QED
      BY <1>1, <1>4, <1>7, <2>9, <2>13 DEF PackageInv, Writing
  <1>8. QED
    BY <1>5, <1>6, <1>7 DEF WriteLock

(* The loop over one manifest is over; the last one ends the command, with  *)
(* nothing to come.                                                         *)
LEMMA LeaveKeeps ==
    ASSUME PackageAssumption, PackageInv, Leave
    PROVE  PackageInv'
  <1>1. /\ TypeOK /\ walk # <<>> /\ Innermost.rest = {} /\ command \in {"build", "fetch"}
        /\ UNCHANGED <<files, visited, sources, lock>> /\ UNCHANGED files /\ tree' = tree
    BY DEF PackageInv, TypeOK, Leave, files
  <1>2. Collected' = Collected /\ Written' = Written
    BY <1>1, SameNeeds DEF Collected, Written, Packs, Once
  <1>3. PICK n \in Nat \ {0} : n = Len(walk)
    BY <1>1, InnermostFrame
  <1>4. walk \in Seq(Frames) /\ DOMAIN walk = 1..n /\ walk[n].rest = {} /\ Frames' = Frames
    BY <1>1, <1>3, InnermostFrame DEF TypeOK, Frames, Innermost
  <1>5. CASE n = 1 /\ Finish(command, TRUE)
    <2>1. \A d, m : ~ToCome(d, m)
      BY <1>3, <1>4, <1>5 DEF ToCome
    <2>2. command' = "idle" /\ walk' = <<>>
      BY <1>5 DEF Finish
    <2>3. CASE command = "build"
      <3>1. built' = TRUE /\ fetched' = fetched
        BY <1>5, <2>3 DEF Finish
      <3>2. Collecting
        BY <2>3 DEF PackageInv
      <3>3. \A d \in visited : Needs(d) \subseteq visited
        BY <2>1, <3>2 DEF Collecting, Needs, Skipped
      <3>4. visited \subseteq DOMAIN tree
        BY <3>2 DEF Collecting, Needed
      <3>5. Needed \subseteq visited
        BY <3>2, <3>3, <3>4 DEF Needed, Collecting
      <3>6. Collected
        BY <3>2, <3>3, <3>5 DEF Collected, Collecting
      <3>7. TypeOK'
        BY <1>1, <1>4, <2>2, <3>1 DEF TypeOK
      <3>8. QED
        BY <1>2, <2>2, <3>1, <3>6, <3>7 DEF PackageInv
    <2>4. CASE command = "fetch"
      <3>1. fetched' = TRUE /\ built' = built
        BY <1>5, <2>4 DEF Finish
      <3>2. Writing
        BY <2>4 DEF PackageInv
      <3>3. Root \in DOMAIN tree
        BY <1>1 DEF TypeOK, PackageAssumption
      <3>4. Written
        BY <2>1, <3>2, <3>3 DEF Written, Writing
      <3>5. TypeOK'
        BY <1>1, <1>4, <2>2, <3>1 DEF TypeOK
      <3>6. QED
        BY <1>2, <2>2, <3>1, <3>4, <3>5 DEF PackageInv
    <2>5. QED
      BY <1>1, <2>3, <2>4
  <1>6. CASE n # 1 /\ walk' = SubSeq(walk, 1, n - 1) /\ UNCHANGED <<command, built, fetched>>
    <2>1. PICK w : w = SubSeq(walk, 1, n - 1)
      OBVIOUS
    <2>2. w \in Seq(Frames) /\ Len(w) = n - 1 /\ \A k \in 1..(n - 1) : w[k] = walk[k]
      BY <1>3, <1>4, <1>6, <2>1
    <2>3. walk' \in Seq(Frames) /\ DOMAIN walk' = 1..(n - 1) /\ walk' # <<>>
          /\ \A k \in 1..(n - 1) : walk'[k] = walk[k]
      <3>1. walk' = w /\ DOMAIN w = 1..(n - 1) /\ n - 1 \in Nat \ {0}
        BY <1>3, <1>6, <2>1, <2>2
      <3>2. w # <<>>
        BY <2>2, <3>1
      <3>3. QED
        BY <2>2, <3>1, <3>2
    <2>4. TypeOK'
      BY <1>1, <1>4, <1>6, <2>3 DEF TypeOK
    <2>5. \A d, m : ToCome(d, m) => ToCome(d, m)'
      BY <1>3, <1>4, <2>3 DEF ToCome
    <2>6. DOMAIN walk' \subseteq DOMAIN walk
      BY <1>3, <1>4, <2>3
    <2>7. Collecting => Collecting'
      BY <1>1, <1>6, <2>3, <2>5, <2>6, SameNeeds DEF Collecting
    <2>8. Writing => Writing'
      BY <1>1, <1>6, <2>3, <2>5, <2>6 DEF Writing
    <2>9. QED
      BY <1>2, <1>6, <2>4, <2>7, <2>8 DEF PackageInv
  <1>7. QED
    BY <1>3, <1>5, <1>6 DEF Leave

(* A command that cannot open its first file ends at once.                  *)
LEMMA NoEntryKeeps ==
    ASSUME PackageInv, Build, EntrySource \in broken
    PROVE  PackageInv'
  <1>1. /\ TypeOK /\ command = "idle" /\ UNCHANGED <<command, visited, walk, lock, fetched>>
        /\ sources' = <<>> /\ built' = FALSE /\ UNCHANGED files /\ tree' = tree
        /\ fetched => Written
    BY DEF PackageInv, Build, files
  <1>2. sources' \in Seq(Dirs) /\ Frames' = Frames
    BY <1>1, EmptySequence DEF Frames
  <1>3. TypeOK'
    BY <1>1, <1>2 DEF TypeOK
  <1>4. Written' = Written
    BY <1>1 DEF Written, Packs
  <1>5. QED
    BY <1>1, <1>3, <1>4 DEF PackageInv

LEMMA NoLockFileKeeps ==
    ASSUME PackageInv, Fetch, LockFile \in broken
    PROVE  PackageInv'
  <1>1. /\ TypeOK /\ command = "idle" /\ UNCHANGED <<command, visited, walk, lock, sources, built>>
        /\ fetched' = FALSE /\ UNCHANGED files /\ tree' = tree
        /\ built => Collected
    BY DEF PackageInv, Fetch, files
  <1>2. Frames' = Frames
    BY <1>1 DEF Frames
  <1>3. TypeOK'
    BY <1>1, <1>2 DEF TypeOK
  <1>4. Collected' = Collected
    BY <1>1, SameNeeds DEF Collected, Packs, Once
  <1>5. QED
    BY <1>1, <1>3, <1>4 DEF PackageInv

(* A command begins with the root, all of whose dependencies are to come.   *)
LEMMA BuildKeeps ==
    ASSUME PackageAssumption, PackageInv, Build, EntrySource \notin broken
    PROVE  PackageInv'
  <1>1. /\ TypeOK /\ command' = "build" /\ sources' = <<Root>> /\ visited' = {Root}
        /\ built' = FALSE /\ lock' = lock /\ fetched' = fetched /\ UNCHANGED files /\ tree' = tree
        /\ fetched => Written
    BY DEF PackageInv, Build, files
  <1>2. PICK x : x = Level(Root, disabled_dependencies)
    OBVIOUS
  <1>3. walk' = <<x>>
    BY <1>2 DEF Build
  <1>4. Root \in DOMAIN tree /\ DOMAIN tree[Root] \subseteq DepNames /\ Root \in Dirs
    BY <1>1, NamesOf DEF TypeOK, PackageAssumption, Dirs
  <1>5. /\ x \in Frames /\ x.dir = Root /\ x.rest = DOMAIN tree[Root] \ Skipped(Root)
    BY <1>2, <1>4 DEF Level, Frames, Skipped
  <1>6. walk' \in Seq(Frames) /\ walk' # <<>> /\ DOMAIN walk' = {1} /\ walk'[1] = x
    BY <1>3, <1>5
  <1>7. Frames' = Frames
    BY <1>1 DEF Frames
  <1>8. sources' \in Seq(Dirs) /\ DOMAIN sources' = {1} /\ sources'[1] = Root
    BY <1>1, <1>4
  <1>9. TypeOK'
    BY <1>1, <1>4, <1>6, <1>7, <1>8 DEF TypeOK
  <1>10. Root \in Needed
    BY <1>4 DEF Needed
  <1>11. Packs(sources') = visited' /\ Once(sources')
    BY <1>1, <1>8 DEF Packs, Once
  <1>12. \A n \in DOMAIN tree[Root] \ Skipped(Root) : ToCome(Root, n)'
    BY <1>5, <1>6 DEF ToCome
  <1>13. Collecting'
    BY <1>1, <1>5, <1>6, <1>10, <1>11, <1>12, SameNeeds DEF Collecting
  <1>14. Written' = Written
    BY <1>1 DEF Written, Packs
  <1>15. QED
    BY <1>1, <1>9, <1>13, <1>14 DEF PackageInv

LEMMA FetchKeeps ==
    ASSUME PackageAssumption, PackageInv, Fetch, LockFile \notin broken
    PROVE  PackageInv'
  <1>1. /\ TypeOK /\ command' = "fetch" /\ lock' = <<Root>> /\ visited' = {}
        /\ fetched' = FALSE /\ sources' = sources /\ built' = built /\ UNCHANGED files /\ tree' = tree
        /\ built => Collected
    BY DEF PackageInv, Fetch, files
  <1>2. PICK x : x = Level(Root, {})
    OBVIOUS
  <1>3. walk' = <<x>>
    BY <1>2 DEF Fetch
  <1>4. Root \in DOMAIN tree /\ DOMAIN tree[Root] \subseteq DepNames /\ Root \in Dirs
    BY <1>1, NamesOf DEF TypeOK, PackageAssumption, Dirs
  <1>5. /\ x \in Frames /\ x.dir = Root /\ x.rest = DOMAIN tree[Root]
    BY <1>2, <1>4 DEF Level, Frames
  <1>6. walk' \in Seq(Frames) /\ walk' # <<>> /\ DOMAIN walk' = {1} /\ walk'[1] = x
    BY <1>3, <1>5
  <1>7. Frames' = Frames
    BY <1>1 DEF Frames
  <1>8. lock' \in Seq(Dirs) /\ DOMAIN lock' = {1} /\ lock'[1] = Root
    BY <1>1, <1>4
  <1>9. TypeOK'
    BY <1>1, <1>4, <1>6, <1>7, <1>8 DEF TypeOK
  <1>10. Packs(lock') = visited' \cup {Root}
    BY <1>1, <1>8 DEF Packs
  <1>11. \A n \in DOMAIN tree[Root] : ToCome(Root, n)'
    BY <1>5, <1>6 DEF ToCome
  <1>12. Writing'
    BY <1>1, <1>5, <1>6, <1>10, <1>11 DEF Writing
  <1>13. Collected' = Collected
    BY <1>1, SameNeeds DEF Collected, Packs, Once
  <1>14. QED
    BY <1>1, <1>9, <1>12, <1>13 DEF PackageInv

LEMMA EditKeeps ==
    ASSUME PackageInv, Edit
    PROVE  PackageInv'
  <1>1. /\ TypeOK /\ command = "idle" /\ command' = "idle" /\ walk' = <<>>
        /\ UNCHANGED <<visited, sources, lock>> /\ built' = FALSE /\ fetched' = FALSE
    BY DEF PackageInv, TypeOK, Edit
  <1>2. tree' \in Trees
    BY <1>1 DEF Edit, TypeOK
  <1>3. walk' \in Seq(Frames')
    BY <1>1, EmptySequence
  <1>4. TypeOK'
    BY <1>1, <1>2, <1>3 DEF TypeOK
  <1>5. QED
    BY <1>1, <1>4 DEF PackageInv

THEOREM PackagesInductive ==
    ASSUME PackageAssumption
    PROVE  PackageSpec => []PackageInv
  <1>1. PackageInit => PackageInv
    <2>1. <<>> \in Seq(Frames) /\ <<>> \in Seq(Dirs)
      BY EmptySequence
    <2>2. QED
      BY <2>1 DEF PackageInit, PackageInv, TypeOK
  <1>2. ASSUME PackageInv, [PackageNext]_packageVars PROVE PackageInv'
    <2>1. CASE UNCHANGED packageVars
      <3>1. UNCHANGED files /\ UNCHANGED <<tree, command, walk, visited, sources, lock, built, fetched>>
        BY <2>1 DEF packageVars, files
      <3>2. TypeOK' = TypeOK
        BY <3>1 DEF TypeOK, Frames
      <3>3. \A d, n : ToCome(d, n)' = ToCome(d, n)
        BY <3>1 DEF ToCome
      <3>4. Collecting' = Collecting /\ Collected' = Collected
        BY <3>1, <3>3, SameNeeds DEF Collecting, Collected, Packs, Once
      <3>5. Writing' = Writing /\ Written' = Written
        BY <3>1, <3>3 DEF Writing, Written, Packs
      <3>6. QED
        BY <1>2, <3>1, <3>2, <3>4, <3>5 DEF PackageInv
    <2>2. QED
      BY <1>2, <2>1, EditKeeps, NoEntryKeeps, BuildKeeps, NoLockFileKeeps, FetchKeeps,
         CollectKeeps, WriteLockKeeps, LeaveKeeps
      DEF PackageNext, TakeDependency
  <1>3. QED
    BY <1>1, <1>2, PTL DEF PackageSpec

(* A build that succeeds compiles every package it needs, by whatever paths *)
(* and cycles (collect_dependency_sources), exactly once.                   *)
THEOREM PackagesBuildEachOnce ==
    ASSUME PackageAssumption
    PROVE  PackageSpec => []BuildsEachOnce
  <1>1. PackageInv => BuildsEachOnce
    BY DEF PackageInv, Collected, BuildsEachOnce, Packs, Once
  <1>2. QED
    BY <1>1, PackagesInductive, PTL

(* While nothing was edited, uinx.lock names every package that a build     *)
(* compiles (fetch): what both took is closed under the needs of the build. *)
THEOREM PackagesLockNamesBuild ==
    ASSUME PackageAssumption
    PROVE  PackageSpec => []LockNamesBuild
  <1>1. PackageInv => LockNamesBuild
    <2> SUFFICES ASSUME PackageInv, built, fetched
                 PROVE  Packs(sources) \subseteq Packs(lock)
      BY DEF LockNamesBuild, Packs
    <2>1. Collected /\ Written /\ Root \in DOMAIN tree /\ NoPath \notin DOMAIN tree
      BY DEF PackageInv, TypeOK, PackageAssumption
    <2>2. PICK both : both = Needed \cap Packs(lock)
      OBVIOUS
    <2>3. Needed \subseteq DOMAIN tree /\ Root \in Needed
      BY <2>1 DEF Needed
    <2>4. Root \in both /\ both \in SUBSET DOMAIN tree
      BY <2>1, <2>2, <2>3 DEF Written
    <2>5. ASSUME NEW d \in both PROVE Needs(d) \subseteq both
      <3>1. Needs(d) \subseteq Needed
        BY <2>1, <2>2 DEF Collected
      <3>2. Needs(d) \subseteq Packs(lock) \cup {NoPath}
        BY <2>1, <2>2 DEF Written, Needs
      <3>3. QED
        BY <2>1, <2>2, <2>3, <3>1, <3>2
    <2>6. Needed \subseteq both
      BY <2>4, <2>5 DEF Needed
    <2>7. QED
      BY <2>1, <2>2, <2>6 DEF Collected
  <1>2. QED
    BY <1>1, PackagesInductive, PTL
-----------------------------------------------------------------------------
(* uinx fmt.  Lines of any kinds and tokens, and the stack of widths, which *)
(* starts with 0.                                                           *)
LineOf(Kinds, Toks) == [kind : Kinds, w : Nat, toks : Toks, blank : BOOLEAN]
Stacks == {s \in Seq(Nat) : s # <<>> /\ s[1] = 0}

(* Popping ends at the last entry that is not deeper than the line.         *)
IsLast(s, w, n) == s[n] <= w /\ \A m \in n + 1 .. Len(s) : s[m] > w

LEMMA KeptIs ==
    ASSUME NEW s \in Stacks, NEW w \in Nat
    PROVE  \E n \in 1 .. Len(s) : IsLast(s, w, n) /\ Kept(s, w) = SubSeq(s, 1, n)
  <1>1. PICK k \in Nat : k = Len(s) /\ k > 0 /\ DOMAIN s = 1 .. k /\ s[1] = 0
    BY DEF Stacks
  <1>2. \A n \in 1 .. k : s[n] \in Nat
    BY <1>1 DEF Stacks
  <1>3. PICK n \in 1 .. k : IsLast(s, w, n)
    <2> DEFINE T == {d \in 0 .. k - 1 : s[k - d] <= w}
    <2>1. k - 1 \in T
      BY <1>1
    <2>2. T \in SUBSET Nat /\ T # {}
      BY <2>1
    <2>3. PICK d \in T : \A e \in T : d <= e
      <3> HIDE DEF T
      <3>1. QED
        BY <2>2, Least
    <2>4. d \in 0 .. k - 1 /\ s[k - d] <= w
      OBVIOUS
    <2>5. PICK n : n = k - d
      OBVIOUS
    <2>6. n \in 1 .. k /\ s[n] <= w
      BY <2>4, <2>5
    <2>7. ASSUME NEW m \in n + 1 .. k PROVE s[m] > w
      <3>1. k - m \in 0 .. k - 1 /\ k - (k - m) = m /\ ~(d <= k - m) /\ m \in 1 .. k
        BY <2>4, <2>5, <2>6
      <3>2. ~(k - m \in T)
        BY <2>3, <3>1
      <3>3. ~(s[m] <= w)
        BY <3>1, <3>2
      <3>4. QED
        BY <1>2, <3>1, <3>3
    <2>8. QED
      BY <1>1, <2>6, <2>7 DEF IsLast
  <1>4. \A i \in 1 .. k : (i = 1 \/ s[i] <= w) /\ (\A m \in i + 1 .. k : s[m] > w) => i = n
    <2> SUFFICES ASSUME NEW i \in 1 .. k, i = 1 \/ s[i] <= w, \A m \in i + 1 .. k : s[m] > w
                 PROVE  i = n
      OBVIOUS
    <2>1. s[i] <= w /\ s[n] <= w /\ s[i] \in Nat /\ s[n] \in Nat
      BY <1>1, <1>2, <1>3 DEF IsLast
    <2>2. ~(i < n)
      BY <2>1
    <2>3. ~(n < i)
      BY <1>1, <1>3, <2>1 DEF IsLast
    <2>4. QED
      BY <2>2, <2>3
  <1>5. (n = 1 \/ s[n] <= w) /\ \A m \in n + 1 .. k : s[m] > w
    BY <1>1, <1>3 DEF IsLast
  <1>6. n = CHOOSE i \in 1 .. k : (i = 1 \/ s[i] <= w) /\ \A m \in i + 1 .. k : s[m] > w
    BY <1>4, <1>5
  <1>7. Kept(s, w) = SubSeq(s, 1, n)
    BY <1>1, <1>6 DEF Kept
  <1>8. QED
    BY <1>1, <1>3, <1>7

(* The stack after a line of text ends in its width: it is what was not     *)
(* deeper, and the width if that is new.                                    *)
LEMMA OpenedIs ==
    ASSUME NEW s \in Stacks, NEW w \in Nat, NEW t, t = Opened(Kept(s, w), w)
    PROVE  /\ t \in Stacks /\ Len(t) \in Nat \ {0} /\ t[Len(t)] = w
           /\ \E n \in 1 .. Len(s) : /\ IsLast(s, w, n) /\ \A i \in 1 .. n : t[i] = s[i]
                                     /\ Len(t) = IF w > s[n] THEN n + 1 ELSE n
  <1>1. PICK n \in 1 .. Len(s) : IsLast(s, w, n) /\ Kept(s, w) = SubSeq(s, 1, n)
    BY KeptIs
  <1>2. s \in Seq(Nat) /\ Len(s) \in Nat /\ n \in Nat /\ n > 0 /\ s[1] = 0 /\ s[n] \in Nat
    BY <1>1 DEF Stacks
  <1>3. PICK k : k = SubSeq(s, 1, n)
    OBVIOUS
  <1>4. k \in Seq(Nat) /\ Len(k) = n /\ \A i \in 1 .. n : k[i] = s[i]
    BY <1>1, <1>2, <1>3
  <1>5. t = IF w > s[n] THEN Append(k, w) ELSE k
    BY <1>1, <1>2, <1>3, <1>4 DEF Opened
  <1>6. s[n] <= w
    BY <1>1 DEF IsLast
  <1>7. /\ t \in Stacks /\ Len(t) \in Nat \ {0} /\ t[Len(t)] = w
        /\ (\A i \in 1 .. n : t[i] = s[i]) /\ Len(t) = IF w > s[n] THEN n + 1 ELSE n
    <2>1. CASE w > s[n]
      <3>1. t = Append(k, w)
        BY <1>5, <2>1
      <3>2. t \in Seq(Nat) /\ Len(t) = n + 1 /\ t[n + 1] = w /\ \A i \in 1 .. n : t[i] = k[i]
        BY <1>2, <1>4, <3>1
      <3>3. t # <<>> /\ t[1] = 0 /\ \A i \in 1 .. n : t[i] = s[i]
        BY <1>2, <1>4, <3>2
      <3>4. t \in Stacks
        BY <3>2, <3>3 DEF Stacks
      <3>5. QED
        BY <1>2, <2>1, <3>2, <3>3, <3>4
    <2>2. CASE ~(w > s[n])
      <3>1. t = k /\ w = s[n]
        BY <1>2, <1>5, <1>6, <2>2
      <3>2. t # <<>> /\ t[1] = 0 /\ t[n] = w
        BY <1>2, <1>4, <3>1
      <3>3. t \in Stacks
        BY <1>4, <3>1, <3>2 DEF Stacks
      <3>4. QED
        BY <1>2, <1>4, <2>2, <3>1, <3>2, <3>3
    <2>3. QED
      BY <2>1, <2>2
  <1>8. QED
    BY <1>1, <1>7

(* The loop of format_file, turn by turn.                                   *)
Turn(f, lines, n) == IF n = 0 THEN [out |-> <<>>, indentation |-> <<0>>] ELSE FormatLine(f[n - 1], lines[n])
IsLoop(f, lines) == \A n \in 0 .. Len(lines) : f[n] = Turn(f, lines, n)

LEMMA Loops ==
    ASSUME NEW lines, Len(lines) \in Nat
    PROVE  \E f : IsLoop(f, lines) /\ format_file(lines) = f[Len(lines)].out
  <1> DEFINE T == {n \in Nat : \E f : f = [i \in 0 .. n |-> Turn(f, lines, i)]}
  <1>1. 0 \in T
    <2>1. PICK f : f = [i \in 0 .. 0 |-> [out |-> <<>>, indentation |-> <<0>>]]
      OBVIOUS
    <2>2. \A i \in 0 .. 0 : Turn(f, lines, i) = [out |-> <<>>, indentation |-> <<0>>]
      BY DEF Turn
    <2>3. f = [i \in 0 .. 0 |-> Turn(f, lines, i)]
      BY <2>1, <2>2
    <2>4. QED
      BY <2>3
  <1>2. ASSUME NEW n \in T PROVE n + 1 \in T
    <2>1. PICK f : f = [i \in 0 .. n |-> Turn(f, lines, i)]
      OBVIOUS
    <2>2. PICK g : g = [i \in 0 .. n + 1 |-> Turn(f, lines, i)]
      OBVIOUS
    <2>3. n \in Nat /\ \A i \in 0 .. n + 1 : i # 0 => i - 1 \in 0 .. n
      OBVIOUS
    <2>4. \A i \in 0 .. n : g[i] = f[i]
      BY <2>1, <2>2, <2>3
    <2>5. \A i \in 0 .. n + 1 : Turn(g, lines, i) = Turn(f, lines, i)
      BY <2>3, <2>4 DEF Turn
    <2>6. g = [i \in 0 .. n + 1 |-> Turn(g, lines, i)]
      BY <2>2, <2>5
    <2>7. n + 1 \in Nat /\ \E h : h = [i \in 0 .. n + 1 |-> Turn(h, lines, i)]
      BY <2>3, <2>6
    <2>8. QED
      BY <2>7
  <1>3. T = Nat
    <2> HIDE DEF T
    <2>1. QED
      BY <1>1, <1>2, SetInduction DEF T
  <1>4. PICK f : f = CHOOSE g : g = [i \in 0 .. Len(lines) |-> Turn(g, lines, i)]
    OBVIOUS
  <1>5. \E g : g = [i \in 0 .. Len(lines) |-> Turn(g, lines, i)]
    <2>1. Len(lines) \in T
      BY <1>3
    <2>2. QED
      BY <2>1
  <1>6. f = [i \in 0 .. Len(lines) |-> Turn(f, lines, i)]
    BY <1>4, <1>5
  <1>7. format_file(lines) = f[Len(lines)].out
    BY <1>4 DEF format_file, Turn
  <1>8. IsLoop(f, lines)
    BY <1>6 DEF IsLoop
  <1>9. QED
    BY <1>7, <1>8

(* The stack after n lines, and what line n has become.                     *)
StackAt(f, n) == f[n].indentation
LineAs(f, lines, n) ==
    [lines[n] EXCEPT !.w = IF lines[n].kind = "blank" THEN 0 ELSE 4 * (Len(StackAt(f, n)) - 1)]

LEMMA OneTurn ==
    ASSUME NEW Kinds, NEW Toks, NEW lines \in Seq(LineOf(Kinds, Toks)), NEW f, IsLoop(f, lines),
           NEW p \in 0 .. Len(lines) - 1, StackAt(f, p) \in Stacks
    PROVE  /\ StackAt(f, p + 1) \in Stacks
           /\ StackAt(f, p + 1) = IF lines[p + 1].kind = "blank" THEN StackAt(f, p)
                                  ELSE Opened(Kept(StackAt(f, p), lines[p + 1].w), lines[p + 1].w)
           /\ f[p + 1].out = Append(f[p].out, LineAs(f, lines, p + 1))
           /\ LineAs(f, lines, p + 1) \in LineOf(Kinds, Toks)
  <1>1. PICK n : n = p + 1
    OBVIOUS
  <1>2. n \in 1 .. Len(lines) /\ n \in 0 .. Len(lines) /\ n # 0 /\ n - 1 = p
    BY <1>1
  <1>3. PICK l \in LineOf(Kinds, Toks) : l = lines[n]
    BY <1>2
  <1>4. PICK s \in Stacks : s = StackAt(f, p)
    OBVIOUS
  <1>5. l.w \in Nat
    BY DEF LineOf
  <1>6. PICK t : t = Opened(Kept(s, l.w), l.w)
    OBVIOUS
  <1>7. t \in Stacks /\ Len(t) \in Nat \ {0}
    BY <1>5, <1>6, OpenedIs
  <1>8. f[n] = FormatLine(f[p], l)
    BY <1>2, <1>3 DEF IsLoop, Turn
  <1>9. f[n] = IF l.kind = "blank" THEN Indented(f[p], l, s, 0)
               ELSE Indented(f[p], l, t, 4 * (Len(t) - 1))
    BY <1>4, <1>6, <1>8 DEF FormatLine, StackAt
  <1>10. PICK v : v = IF l.kind = "blank" THEN 0 ELSE 4 * (Len(t) - 1)
    OBVIOUS
  <1>11. f[n] = Indented(f[p], l, IF l.kind = "blank" THEN s ELSE t, v)
    BY <1>9, <1>10
  <1>12. StackAt(f, n) = IF l.kind = "blank" THEN s ELSE t
    BY <1>11 DEF StackAt, Indented
  <1>13. LineAs(f, lines, n) = [l EXCEPT !.w = v]
    BY <1>3, <1>10, <1>12 DEF LineAs
  <1>14. f[n].out = Append(f[p].out, LineAs(f, lines, n))
    BY <1>11, <1>13 DEF Indented
  <1>15. LineAs(f, lines, n) \in LineOf(Kinds, Toks)
    <2>1. v \in Nat
      BY <1>7, <1>10
    <2>2. QED
      BY <1>13, <2>1 DEF LineOf
  <1>16. StackAt(f, n) \in Stacks
    BY <1>7, <1>12
  <1>17. QED
    BY <1>1, <1>3, <1>4, <1>6, <1>12, <1>14, <1>15, <1>16

(* What format_file does with a file of k lines, and the stacks on the way. *)
Run(lines, k, f) ==
    /\ format_file(lines) = [m \in 1 .. k |-> LineAs(f, lines, m)]
    /\ StackAt(f, 0) = <<0>>
    /\ \A n \in 0 .. k : StackAt(f, n) \in Stacks /\ Len(StackAt(f, n)) \in Nat \ {0}
    /\ \A n \in 0 .. k - 1 :
          StackAt(f, n + 1) = IF lines[n + 1].kind = "blank" THEN StackAt(f, n)
                              ELSE Opened(Kept(StackAt(f, n), lines[n + 1].w), lines[n + 1].w)

LEMMA Passed ==
    ASSUME NEW Kinds, NEW Toks, NEW lines \in Seq(LineOf(Kinds, Toks)), NEW f, IsLoop(f, lines),
           NEW k, k = Len(lines), format_file(lines) = f[k].out
    PROVE  Run(lines, k, f) /\ \A n \in 1 .. k : LineAs(f, lines, n) \in LineOf(Kinds, Toks)
  <1>1. k \in Nat /\ k = Len(lines)
    OBVIOUS
  <1>2. StackAt(f, 0) = <<0>> /\ f[0].out = <<>>
    BY <1>1 DEF StackAt, Turn, IsLoop
  <1> DEFINE Upto(n) == StackAt(f, n) \in Stacks /\ f[n].out = [m \in 1 .. n |-> LineAs(f, lines, m)]
             T == {n \in Nat : n <= k => Upto(n)}
  <1>3. 0 \in T
    <2>1. <<0>> \in Stacks
      BY DEF Stacks
    <2>2. f[0].out = [m \in 1 .. 0 |-> LineAs(f, lines, m)]
      BY <1>2
    <2>3. QED
      BY <1>2, <2>1, <2>2
  <1>4. ASSUME NEW n \in T PROVE n + 1 \in T
    <2>1. n \in Nat /\ (n <= k => Upto(n))
      OBVIOUS
    <2>2. ASSUME n + 1 <= k PROVE Upto(n + 1)
      <3>1. n \in 0 .. Len(lines) - 1 /\ StackAt(f, n) \in Stacks
            /\ f[n].out = [m \in 1 .. n |-> LineAs(f, lines, m)]
        BY <1>1, <2>1, <2>2
      <3> HIDE DEF T
      <3>2. /\ StackAt(f, n + 1) \in Stacks
            /\ f[n + 1].out = Append(f[n].out, LineAs(f, lines, n + 1))
        BY <3>1, OneTurn
      <3>3. PICK a, x : a = f[n].out /\ x = LineAs(f, lines, n + 1)
        OBVIOUS
      <3>4. a = [m \in 1 .. n |-> LineAs(f, lines, m)] /\ Len(a) = n
        BY <2>1, <3>1, <3>3
      <3>5. Append(a, x) = [m \in 1 .. n + 1 |-> IF m = n + 1 THEN x ELSE a[m]]
        BY <2>1, <3>4
      <3>6. \A m \in 1 .. n + 1 : (IF m = n + 1 THEN x ELSE a[m]) = LineAs(f, lines, m)
        <4>1. \A m \in 1 .. n + 1 : m \in 1 .. n \/ m = n + 1
          BY <2>1
        <4>2. QED
          BY <3>3, <3>4, <4>1
      <3>7. f[n + 1].out = [m \in 1 .. n + 1 |-> LineAs(f, lines, m)]
        BY <3>2, <3>3, <3>5, <3>6
      <3>8. QED
        BY <3>2, <3>7
    <2> HIDE DEF Upto
    <2>3. QED
      BY <2>1, <2>2
  <1>5. T = Nat
    <2> HIDE DEF T
    <2>1. QED
      BY <1>3, <1>4, SetInduction DEF T
  <1>6. ASSUME NEW n \in 0 .. k PROVE Upto(n)
    <2> HIDE DEF Upto
    <2>1. QED
      BY <1>5
  <1>7. ASSUME NEW n \in 0 .. k PROVE StackAt(f, n) \in Stacks /\ Len(StackAt(f, n)) \in Nat \ {0}
    <2>1. StackAt(f, n) \in Stacks
      BY <1>6
    <2>2. QED
      BY <2>1 DEF Stacks
  <1>8. f[k].out = [m \in 1 .. k |-> LineAs(f, lines, m)]
    BY <1>6
  <1>9. ASSUME NEW n \in 0 .. k - 1
        PROVE  /\ LineAs(f, lines, n + 1) \in LineOf(Kinds, Toks)
               /\ StackAt(f, n + 1) = IF lines[n + 1].kind = "blank" THEN StackAt(f, n)
                                      ELSE Opened(Kept(StackAt(f, n), lines[n + 1].w), lines[n + 1].w)
    <2>1. StackAt(f, n) \in Stacks /\ n \in 0 .. Len(lines) - 1
      BY <1>1, <1>7
    <2>2. QED
      BY <2>1, OneTurn
  <1>10. ASSUME NEW n \in 1 .. k PROVE LineAs(f, lines, n) \in LineOf(Kinds, Toks)
    <2>1. PICK p \in 0 .. k - 1 : n = p + 1
      OBVIOUS
    <2>2. QED
      BY <1>9, <2>1
  <1> HIDE DEF Upto, T
  <1>11. QED
    BY <1>2, <1>7, <1>8, <1>9, <1>10 DEF Run

(* How deep a line of text is, by the depth before it.                      *)
LEMMA StepDepth ==
    ASSUME NEW s \in Stacks, NEW w \in Nat, NEW t, t = Opened(Kept(s, w), w)
    PROVE  /\ Len(t) \in 1 .. Len(s) + 1 /\ Len(s) \in Nat \ {0} /\ s[Len(s)] \in Nat
           /\ w > s[Len(s)] => Len(t) = Len(s) + 1
           /\ w = s[Len(s)] => Len(t) = Len(s)
           /\ w < s[Len(s)] => Len(t) <= Len(s)
  <1>1. PICK k \in Nat \ {0} : k = Len(s)
    BY DEF Stacks
  <1>2. \A i \in 1 .. k : s[i] \in Nat
    BY <1>1 DEF Stacks
  <1>3. PICK n \in 1 .. k : IsLast(s, w, n) /\ Len(t) = IF w > s[n] THEN n + 1 ELSE n
    BY <1>1, OpenedIs
  <1>4. s[n] <= w /\ \A m \in n + 1 .. k : s[m] > w
    BY <1>1, <1>3 DEF IsLast
  <1>5. k \in n + 1 .. k \/ n = k
    OBVIOUS
  <1>6. n < k => s[k] > w
    BY <1>4, <1>5
  <1>7. s[k] \in Nat /\ s[n] \in Nat
    BY <1>2
  <1>8. Len(t) \in 1 .. k + 1
    BY <1>3
  <1>9. n = k \/ (n < k /\ s[k] > w)
    BY <1>5, <1>6
  <1>10. w > s[k] => Len(t) = k + 1
    BY <1>3, <1>7, <1>9
  <1>11. w = s[k] => Len(t) = k
    BY <1>3, <1>7, <1>9
  <1>12. w < s[k] => Len(t) <= k
    <2>1. CASE n = k
      BY <1>4, <1>7, <2>1
    <2>2. CASE n < k
      <3>1. Len(t) = n + 1 \/ Len(t) = n
        BY <1>3
      <3>2. QED
        BY <2>2, <3>1
    <2>3. QED
      BY <1>9, <2>1, <2>2
  <1>13. QED
    BY <1>1, <1>7, <1>8, <1>10, <1>11, <1>12

(* The stack of a formatted file.                                           *)
Even(k) == [i \in 1 .. k |-> 4 * (i - 1)]

LEMMA EvenStack ==
    ASSUME NEW k \in Nat \ {0}
    PROVE  Even(k) \in Stacks /\ Len(Even(k)) = k /\ \A i \in 1 .. k : Even(k)[i] = 4 * (i - 1)
  <1>1. \A i \in 1 .. k : 4 * (i - 1) \in Nat
    OBVIOUS
  <1>2. Even(k) \in [1 .. k -> Nat]
    BY <1>1 DEF Even
  <1>3. Even(k) \in Seq(Nat) /\ Len(Even(k)) = k
    BY <1>2
  <1>4. \A i \in 1 .. k : Even(k)[i] = 4 * (i - 1)
    BY DEF Even
  <1>5. Even(k)[1] = 0 /\ Even(k) # <<>>
    BY <1>3, <1>4
  <1>6. QED
    BY <1>3, <1>4, <1>5 DEF Stacks

LEMMA EvenOpened ==
    ASSUME NEW k \in Nat \ {0}, NEW d \in 1 .. k + 1, NEW w, w = 4 * (d - 1)
    PROVE  Opened(Kept(Even(k), w), w) = Even(d)
  <1>1. PICK s \in Stacks : s = Even(k)
    BY EvenStack
  <1>2. Len(s) = k /\ \A i \in 1 .. k : s[i] = 4 * (i - 1)
    BY <1>1, EvenStack
  <1>3. w \in Nat /\ d \in Nat \ {0}
    OBVIOUS
  <1>4. PICK t : t = Opened(Kept(s, w), w)
    OBVIOUS
  <1>5. t \in Stacks /\ t[Len(t)] = w
    BY <1>3, <1>4, OpenedIs
  <1>6. PICK n \in 1 .. k : /\ IsLast(s, w, n) /\ \A i \in 1 .. n : t[i] = s[i]
                            /\ Len(t) = IF w > s[n] THEN n + 1 ELSE n
    <2>1. \E n \in 1 .. Len(s) : /\ IsLast(s, w, n) /\ \A i \in 1 .. n : t[i] = s[i]
                                 /\ Len(t) = IF w > s[n] THEN n + 1 ELSE n
      BY <1>3, <1>4, OpenedIs
    <2>2. QED
      BY <1>2, <2>1
  <1>7. s[n] <= w /\ \A m \in n + 1 .. k : s[m] > w
    BY <1>2, <1>6 DEF IsLast
  <1>8. n \in Nat /\ s[n] = 4 * (n - 1) /\ n <= d
    BY <1>2, <1>7
  <1>9. n < k => n >= d
    <2> SUFFICES ASSUME n < k PROVE n >= d
      OBVIOUS
    <2>1. n + 1 \in n + 1 .. k /\ n + 1 \in 1 .. k
      BY <1>8
    <2>2. s[n + 1] > w /\ s[n + 1] = 4 * ((n + 1) - 1)
      BY <1>2, <1>7, <2>1
    <2>3. QED
      BY <1>8, <2>2
  <1>10. Len(t) = d /\ (d = n \/ d = n + 1)
    <2>1. d = n \/ d = n + 1
      BY <1>8, <1>9
    <2>2. d = n => ~(w > s[n])
      BY <1>8
    <2>3. d = n + 1 => w > s[n]
      BY <1>8
    <2>4. QED
      BY <1>6, <2>1, <2>2, <2>3
  <1>11. \A i \in 1 .. d : t[i] = 4 * (i - 1)
    <2>1. \A i \in 1 .. n : t[i] = 4 * (i - 1)
      BY <1>2, <1>6
    <2>2. t[d] = 4 * (d - 1)
      BY <1>5, <1>10
    <2>3. \A i \in 1 .. d : i \in 1 .. n \/ i = d
      BY <1>8, <1>10
    <2>4. QED
      BY <2>1, <2>2, <2>3
  <1>12. t = [i \in 1 .. d |-> t[i]]
    BY <1>5, <1>10 DEF Stacks
  <1>13. t = [i \in 1 .. d |-> 4 * (i - 1)]
    BY <1>11, <1>12
  <1>14. QED
    BY <1>1, <1>4, <1>13 DEF Even

(* What format_file writes is a file again.                                 *)
LEMMA Formatted ==
    ASSUME NEW Kinds, NEW Toks, NEW lines \in Seq(LineOf(Kinds, Toks)), NEW k, k = Len(lines)
    PROVE  /\ \E f : Run(lines, k, f)
           /\ format_file(lines) \in Seq(LineOf(Kinds, Toks))
           /\ Len(format_file(lines)) = k /\ k \in Nat
  <1>1. k \in Nat
    OBVIOUS
  <1>2. PICK f : IsLoop(f, lines) /\ format_file(lines) = f[k].out
    BY <1>1, Loops
  <1>3. Run(lines, k, f)
    BY <1>2, Passed
  <1>4. \A n \in 1 .. k : LineAs(f, lines, n) \in LineOf(Kinds, Toks)
    BY <1>2, Passed
  <1>5. PICK out : out = format_file(lines)
    OBVIOUS
  <1>6. out \in [1 .. k -> LineOf(Kinds, Toks)]
    BY <1>3, <1>4, <1>5 DEF Run
  <1>7. out \in Seq(LineOf(Kinds, Toks)) /\ Len(out) = k
    BY <1>1, <1>6
  <1>8. QED
    BY <1>1, <1>3, <1>5, <1>7

(* After uinx fmt, uinx fmt --check finds nothing to change, whatever the   *)
(* file: format_file of what format_file wrote is what it wrote.            *)
THEOREM FormatterSettles ==
    ASSUME NEW Kinds, NEW Toks, NEW lines \in Seq(LineOf(Kinds, Toks))
    PROVE  Settles(lines)
  <1>1. PICK k \in Nat : k = Len(lines)
    OBVIOUS
  <1>2. PICK out : out = format_file(lines)
    OBVIOUS
  <1>3. PICK f : Run(lines, k, f)
    BY <1>1, Formatted
  <1>4. out \in Seq(LineOf(Kinds, Toks)) /\ Len(out) = k
    BY <1>1, <1>2, Formatted
  <1>5. PICK g : Run(out, k, g)
    BY <1>4, Formatted
  <1>6. out = [m \in 1 .. k |-> LineAs(f, lines, m)]
    BY <1>2, <1>3 DEF Run
  <1>7. ASSUME NEW m \in 1 .. k
        PROVE  /\ lines[m] \in LineOf(Kinds, Toks) /\ lines[m].w \in Nat /\ out[m] \in LineOf(Kinds, Toks)
               /\ out[m].kind = lines[m].kind
               /\ out[m].w = IF lines[m].kind = "blank" THEN 0 ELSE 4 * (Len(StackAt(f, m)) - 1)
    <2>1. PICK l \in LineOf(Kinds, Toks) : l = lines[m]
      BY <1>1
    <2>2. PICK v : v = IF l.kind = "blank" THEN 0 ELSE 4 * (Len(StackAt(f, m)) - 1)
      OBVIOUS
    <2>3. out[m] = [l EXCEPT !.w = v]
      BY <1>6, <2>1, <2>2 DEF LineAs
    <2>4. l.w \in Nat /\ out[m].kind = l.kind /\ out[m].w = v
      BY <2>3 DEF LineOf
    <2>5. out[m] \in LineOf(Kinds, Toks)
      BY <1>4
    <2>6. QED
      BY <2>1, <2>2, <2>4, <2>5
  <1> DEFINE Even2(n) == StackAt(g, n) = Even(Len(StackAt(f, n)))
             T == {n \in Nat : n <= k => Even2(n)}
  <1>8. 0 \in T
    <2>1. Len(<<0>>) = 1 /\ Even(1) = <<0>>
      BY DEF Even
    <2>2. QED
      BY <1>3, <1>5, <2>1 DEF Run
  <1>9. ASSUME NEW n \in T PROVE n + 1 \in T
    <2>1. n \in Nat /\ (n <= k => Even2(n))
      OBVIOUS
    <2>2. ASSUME n + 1 <= k PROVE Even2(n + 1)
      <3>1. n \in 0 .. k /\ n \in 0 .. k - 1 /\ n + 1 \in 1 .. k
        BY <2>1, <2>2
      <3>2. StackAt(g, n) = Even(Len(StackAt(f, n)))
        BY <2>1, <3>1
      <3> HIDE DEF T
      <3>3. CASE lines[n + 1].kind = "blank"
        <4>1. out[n + 1].kind = "blank"
          BY <1>7, <3>1, <3>3
        <4>2. StackAt(f, n + 1) = StackAt(f, n) /\ StackAt(g, n + 1) = StackAt(g, n)
          BY <1>3, <1>5, <3>1, <3>3, <4>1 DEF Run
        <4>3. QED
          BY <3>2, <4>2
      <3>4. CASE lines[n + 1].kind # "blank"
        <4>1. PICK s \in Stacks : s = StackAt(f, n) /\ Len(s) \in Nat \ {0}
          BY <1>3, <3>1 DEF Run
        <4>2. PICK w \in Nat : w = lines[n + 1].w
          BY <1>7, <3>1
        <4>3. PICK t : t = Opened(Kept(s, w), w)
          OBVIOUS
        <4>4. StackAt(f, n + 1) = t
          BY <1>3, <3>1, <3>4, <4>1, <4>2, <4>3 DEF Run
        <4>5. Len(t) \in 1 .. Len(s) + 1
          BY <4>3, StepDepth
        <4>6. PICK v : v = 4 * (Len(t) - 1)
          OBVIOUS
        <4>7. out[n + 1].kind # "blank" /\ out[n + 1].w = v
          BY <1>7, <3>1, <3>4, <4>4, <4>6
        <4>8. StackAt(g, n + 1) = Opened(Kept(Even(Len(s)), v), v)
          BY <1>5, <3>1, <3>2, <4>1, <4>7 DEF Run
        <4>9. Opened(Kept(Even(Len(s)), v), v) = Even(Len(t))
          BY <4>1, <4>5, <4>6, EvenOpened
        <4>10. QED
          BY <4>4, <4>8, <4>9
      <3>5. QED
        BY <3>3, <3>4
    <2> HIDE DEF Even2
    <2>3. QED
      BY <2>1, <2>2
  <1>10. T = Nat
    <2> HIDE DEF T
    <2>1. QED
      BY <1>8, <1>9, SetInduction DEF T
  <1>11. ASSUME NEW n \in 0 .. k PROVE StackAt(g, n) = Even(Len(StackAt(f, n)))
    <2>1. n \in T
      BY <1>10
    <2>2. QED
      BY <2>1
  <1>12. ASSUME NEW m \in 1 .. k PROVE LineAs(g, out, m) = out[m]
    <2>1. PICK d \in Nat \ {0} : d = Len(StackAt(f, m))
      BY <1>3 DEF Run
    <2>2. Len(StackAt(g, m)) = d
      BY <1>11, <2>1, EvenStack
    <2>3. PICK l \in LineOf(Kinds, Toks) : l = out[m]
      BY <1>7
    <2>4. PICK v : v = IF l.kind = "blank" THEN 0 ELSE 4 * (d - 1)
      OBVIOUS
    <2>5. l.w = v
      BY <1>7, <2>1, <2>3, <2>4
    <2>6. LineAs(g, out, m) = [l EXCEPT !.w = v]
      BY <2>2, <2>3, <2>4 DEF LineAs
    <2>7. [l EXCEPT !.w = v] = l
      BY <2>5 DEF LineOf
    <2>8. QED
      BY <2>3, <2>6, <2>7
  <1>13. [m \in 1 .. k |-> LineAs(g, out, m)] = [m \in 1 .. k |-> out[m]]
    BY <1>12
  <1>14. out = [m \in 1 .. k |-> out[m]]
    BY <1>6
  <1>15. format_file(out) = out
    BY <1>5, <1>13, <1>14 DEF Run
  <1>16. QED
    BY <1>2, <1>15 DEF Settles

(* The file that uinx fmt writes differs in widths only, and opens a level, *)
(* or stays at one, where the file did: a line is deeper than the line of   *)
(* text before it, and then by one level, exactly when it was.              *)
THEOREM FormatterKeepsSteps ==
    ASSUME NEW Kinds, NEW Toks, NEW lines \in Seq(LineOf(Kinds, Toks))
    PROVE  KeepsSteps(lines)
  <1>1. PICK k \in Nat : k = Len(lines) /\ DOMAIN lines = 1 .. k
    OBVIOUS
  <1>2. PICK out : out = format_file(lines)
    OBVIOUS
  <1>3. PICK f : Run(lines, k, f)
    BY <1>1, Formatted
  <1>4. out \in Seq(LineOf(Kinds, Toks)) /\ Len(out) = k
    BY <1>1, <1>2, Formatted
  <1>5. out = [m \in 1 .. k |-> LineAs(f, lines, m)]
    BY <1>2, <1>3 DEF Run
  <1>6. ASSUME NEW m \in 1 .. k
        PROVE  /\ lines[m].w \in Nat /\ out[m] = [lines[m] EXCEPT !.w = out[m].w]
               /\ lines[m].kind # "blank" => out[m].w = 4 * (Len(StackAt(f, m)) - 1)
    <2>1. PICK l \in LineOf(Kinds, Toks) : l = lines[m]
      BY <1>1
    <2>2. PICK v : v = IF l.kind = "blank" THEN 0 ELSE 4 * (Len(StackAt(f, m)) - 1)
      OBVIOUS
    <2>3. out[m] = [l EXCEPT !.w = v]
      BY <1>5, <2>1, <2>2 DEF LineAs
    <2>4. l.w \in Nat /\ out[m].w = v
      BY <2>3 DEF LineOf
    <2>5. QED
      BY <2>1, <2>2, <2>3, <2>4
  <1>7. ASSUME NEW m \in 1 .. k, lines[m].kind # "blank"
        PROVE  \E s \in Stacks : StackAt(f, m) = Opened(Kept(s, lines[m].w), lines[m].w)
    <2>1. PICK p \in 0 .. k - 1 : m = p + 1
      OBVIOUS
    <2>2. p \in 0 .. k
      OBVIOUS
    <2>3. QED
      BY <1>3, <1>7, <2>1, <2>2 DEF Run
  <1>8. ASSUME NEW m \in 1 .. k, NEW n \in 1 .. k, Adjacent(lines, m, n)
        PROVE  /\ lines[n].w > lines[m].w => out[n].w = out[m].w + 4
               /\ lines[n].w = lines[m].w => out[n].w = out[m].w
               /\ lines[n].w < lines[m].w => out[n].w <= out[m].w
    <2>1. /\ m < n /\ lines[m].kind # "blank" /\ lines[n].kind # "blank"
          /\ \A i \in m + 1 .. n - 1 : lines[i].kind = "blank"
      BY <1>8 DEF Adjacent
    <2> DEFINE Same(d) == StackAt(f, m + d) = StackAt(f, m)
               T == {d \in Nat : m + d <= n - 1 => Same(d)}
    <2>2. 0 \in T
      OBVIOUS
    <2>3. ASSUME NEW d \in T PROVE d + 1 \in T
      <3>1. d \in Nat /\ (m + d <= n - 1 => Same(d))
        OBVIOUS
      <3>2. ASSUME m + (d + 1) <= n - 1 PROVE Same(d + 1)
        <4>1. Same(d)
          BY <3>1, <3>2
        <4>2. PICK p : p = m + d
          OBVIOUS
        <4>3. p \in 0 .. k - 1 /\ p + 1 \in m + 1 .. n - 1 /\ m + (d + 1) = p + 1
          BY <3>1, <3>2, <4>2
        <4>4. StackAt(f, p + 1) = StackAt(f, p)
          BY <1>3, <2>1, <4>3 DEF Run
        <4>5. QED
          BY <4>1, <4>2, <4>3, <4>4
      <3> HIDE DEF Same
      <3>3. QED
        BY <3>1, <3>2
    <2>4. T = Nat
      <3> HIDE DEF T
      <3>1. QED
        BY <2>2, <2>3, SetInduction DEF T
    <2>5. PICK p \in 0 .. k - 1 : n = p + 1
      OBVIOUS
    <2>6. StackAt(f, p) = StackAt(f, m)
      <3>1. p - m \in Nat /\ m + (p - m) = p /\ m + (p - m) <= n - 1
        BY <2>1, <2>5
      <3>2. p - m \in T
        BY <2>4, <3>1
      <3>3. Same(p - m)
        BY <3>1, <3>2
      <3>4. QED
        BY <3>1, <3>3
    <2>7. PICK v \in Nat, w \in Nat : v = lines[m].w /\ w = lines[n].w
      BY <1>6
    <2>8. PICK s, t : s = StackAt(f, m) /\ t = StackAt(f, n)
      OBVIOUS
    <2>9. s \in Stacks /\ s[Len(s)] = v
      <3>1. PICK r \in Stacks : s = Opened(Kept(r, v), v)
        BY <1>7, <2>1, <2>7, <2>8
      <3>2. QED
        BY <3>1, OpenedIs
    <2>10. t = Opened(Kept(s, w), w)
      BY <1>3, <2>1, <2>5, <2>6, <2>7, <2>8 DEF Run
    <2>11. /\ Len(t) \in 1 .. Len(s) + 1 /\ Len(s) \in Nat \ {0}
           /\ w > v => Len(t) = Len(s) + 1
           /\ w = v => Len(t) = Len(s)
           /\ w < v => Len(t) <= Len(s)
      BY <2>9, <2>10, StepDepth
    <2>12. out[m].w = 4 * (Len(s) - 1) /\ out[n].w = 4 * (Len(t) - 1)
      BY <1>6, <2>1, <2>8
    <2>13. PICK a \in Nat, b \in Nat : a = Len(s) /\ b = Len(t)
      BY <2>11
    <2>14. out[m].w = 4 * (a - 1) /\ out[n].w = 4 * (b - 1)
      BY <2>12, <2>13
    <2>15. (w > v => b = a + 1) /\ (w = v => b = a) /\ (w < v => b <= a)
      BY <2>11, <2>13
    <2>16. QED
      BY <2>7, <2>14, <2>15
  <1>9. QED
    BY <1>1, <1>2, <1>4, <1>6, <1>8 DEF KeepsSteps
=============================================================================
