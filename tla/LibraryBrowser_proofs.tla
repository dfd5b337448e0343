------------------------- MODULE LibraryBrowser_proofs -------------------------
(***************************************************************************)
(* Proofs about the library window: what CompilationDetector finds, and    *)
(* what the columns show, keep selected and mark; for any files, catalogs, *)
(* searches and bounds.                                                    *)
(***************************************************************************)
EXTENDS LibraryBrowser, FiniteSetTheorems, SequenceTheorems,
  WellFoundedInduction, TLAPS

-----------------------------------------------------------------------------
(* CompilationDetector: the fold.                                          *)

\* The songs of a library: finitely many, of different files
Listing(songs) ==
  /\ IsFiniteSet(songs)
  /\ \A s \in songs : s.file \in Int
  /\ \A s, t \in songs : s.file = t.file => s = t

(* Among the subsets of a finite set there is a smallest one of a kind.    *)
LEMMA SmallestSubset ==
  ASSUME NEW S, IsFiniteSet(S), NEW Bad \in SUBSET (SUBSET S), Bad # {}
  PROVE  \E T \in Bad : \A U \in Bad : U \subseteq T => U = T
<1>1. IsWellFoundedOn(StrictSubsetOrdering(S), SUBSET S)
  BY FS_StrictSubsetOrderingWellFounded, FS_FiniteSubsetsOfFinite
<1>2. PICK T \in Bad : \A U \in Bad : ~(<<U, T>> \in StrictSubsetOrdering(S))
  BY <1>1, WFMin
<1>3. ASSUME NEW U \in Bad, U \subseteq T, U # T PROVE FALSE
  <2>1. <<U, T>> \in (SUBSET S) \X (SUBSET S)
    OBVIOUS
  <2>2. <<U, T>> \in StrictSubsetOrdering(S)
    BY <2>1, <1>3 DEF StrictSubsetOrdering
  <2> QED BY <2>2, <1>2
<1> QED BY <1>3

(* The last song of a list is one, and unique.                             *)
LEMMA LastSongIsLast ==
  ASSUME NEW S, Listing(S), NEW s \in SUBSET S, s # {}
  PROVE  /\ LastSong(s) \in s
         /\ \A t \in s : t.file <= LastSong(s).file
         /\ \A x \in s : (\A t \in s : t.file <= x.file) => x = LastSong(s)
<1> DEFINE HasLast(T) == \E x \in T : \A t \in T : t.file <= x.file
           Bad == {T \in SUBSET S : T # {} /\ ~HasLast(T)}
<1>1. Bad = {}
  <2> SUFFICES ASSUME Bad # {} PROVE FALSE
    OBVIOUS
  <2>1. PICK T \in Bad : \A U \in Bad : U \subseteq T => U = T
    <3>1. Bad \in SUBSET (SUBSET S)
      OBVIOUS
    <3> HIDE DEF Bad
    <3> QED BY <3>1, SmallestSubset DEF Listing
  <2>2. PICK x \in T : TRUE
    OBVIOUS
  <2>3. T \ {x} \notin Bad
    BY <2>1, <2>2
  <2>4. CASE T \ {x} = {}
    <3>1. T = {x}
      BY <2>4, <2>2
    <3>2. x.file \in Int
      BY <2>2 DEF Listing
    <3> QED BY <3>1, <3>2
  <2>5. CASE HasLast(T \ {x})
    <3>1. PICK y \in T \ {x} : \A t \in T \ {x} : t.file <= y.file
      BY <2>5
    <3>2. x.file \in Int /\ \A t \in T : t.file \in Int
      BY <2>2 DEF Listing
    <3>3. CASE x.file <= y.file
      <4>1. \A t \in T : t.file <= y.file
        BY <3>1, <3>3
      <4> QED BY <4>1, <3>1
    <3>4. CASE y.file <= x.file
      <4>1. \A t \in T : t.file <= x.file
        BY <3>1, <3>2, <3>4
      <4> QED BY <4>1, <2>2
    <3> QED BY <3>1, <3>2, <3>3, <3>4
  <2> QED BY <2>3, <2>4, <2>5
<1>2. \E x \in s : \A t \in s : t.file <= x.file
  BY <1>1
<1>3. LastSong(s) \in s /\ \A t \in s : t.file <= LastSong(s).file
  BY <1>2 DEF LastSong
<1>4. ASSUME NEW x \in s, \A t \in s : t.file <= x.file PROVE x = LastSong(s)
  <2>1. x.file <= LastSong(s).file /\ LastSong(s).file <= x.file
    BY <1>3, <1>4
  <2>2. x.file \in Int /\ LastSong(s).file \in Int
    BY <1>3, <1>4 DEF Listing
  <2> QED BY <2>1, <2>2, <1>3, <1>4 DEF Listing
<1> QED BY <1>3, <1>4

\* What is known before the first song
NothingSeen == [directory |-> {}, result |-> {}]

\* What is known after the first songs, for each list of them
IsLoop(g, S) ==
  g = [s \in SUBSET S |-> IF s = {} THEN NothingSeen
                          ELSE NextSong(g[s \ {LastSong(s)}], LastSong(s))]

(* The loop goes through the songs of any library.                         *)
LEMMA LoopExists ==
  ASSUME NEW S, Listing(S)
  PROVE  \E g : IsLoop(g, S)
<1> DEFINE Bad == {T \in SUBSET S : ~\E g : IsLoop(g, T)}
<1> SUFFICES ASSUME Bad # {} PROVE FALSE
  OBVIOUS
<1>1. PICK T \in Bad : \A U \in Bad : U \subseteq T => U = T
  <2>1. Bad \in SUBSET (SUBSET S)
    OBVIOUS
  <2> HIDE DEF Bad
  <2> QED BY <2>1, SmallestSubset DEF Listing
<1>2. T # {}
  <2> SUFFICES ASSUME T = {} PROVE FALSE
    OBVIOUS
  <2> DEFINE g == [s \in SUBSET T |-> NothingSeen]
  <2>1. SUBSET T = {{}}
    OBVIOUS
  <2>2. IsLoop(g, T)
    BY <2>1 DEF IsLoop
  <2> QED BY <2>2
<1> DEFINE x == LastSong(T)
<1>3. x \in T /\ \A t \in T : t.file <= x.file
  BY <1>2, LastSongIsLast
<1>4. PICK f : IsLoop(f, T \ {x})
  <2>1. T \ {x} \notin Bad
    BY <1>1, <1>3
  <2> QED BY <2>1
<1> DEFINE g == [s \in SUBSET T |-> IF s = {} THEN NothingSeen
                   ELSE IF x \in s THEN NextSong(f[s \ {x}], x) ELSE f[s]]
<1>5. ASSUME NEW s \in SUBSET T, s # {}
      PROVE  g[s] = NextSong(g[s \ {LastSong(s)}], LastSong(s))
  <2>1. LastSong(s) \in s
    BY <1>5, LastSongIsLast
  <2>2. f[{}] = NothingSeen
    <3>1. {} \in SUBSET (T \ {x})
      OBVIOUS
    <3> QED BY <3>1, <1>4 DEF IsLoop
  <2> DEFINE y == LastSong(s)
  <2>3. g[s \ {y}] = IF s \ {y} = {} THEN NothingSeen
                     ELSE IF x \in s \ {y} THEN NextSong(f[(s \ {y}) \ {x}], x)
                          ELSE f[s \ {y}]
    OBVIOUS
  <2>4. g[s] = IF x \in s THEN NextSong(f[s \ {x}], x) ELSE f[s]
    BY <1>5
  <2>5. CASE x \in s
    <3>1. x = y
      BY <2>5, <1>3, <1>5, LastSongIsLast
    <3>2. g[s \ {y}] = f[s \ {x}]
      BY <3>1, <2>3, <2>2
    <3> QED BY <3>1, <3>2, <2>4, <2>5
  <2>6. CASE x \notin s
    <3>1. s \in SUBSET (T \ {x})
      BY <2>6
    <3>2. f[s] = NextSong(f[s \ {y}], y)
      BY <3>1, <1>5, <1>4 DEF IsLoop
    <3>3. g[s \ {y}] = f[s \ {y}]
      BY <2>3, <2>2, <2>6
    <3> QED BY <3>2, <3>3, <2>4, <2>6
  <2> QED BY <2>5, <2>6
<1>6. g[{}] = NothingSeen
  OBVIOUS
<1>7. DOMAIN g = SUBSET T
  OBVIOUS
<1>8. IsLoop(g, T)
  <2>1. \A s \in SUBSET T : g[s] = IF s = {} THEN NothingSeen
                     ELSE NextSong(g[s \ {LastSong(s)}], LastSong(s))
    BY <1>5, <1>6
  <2>2. g = [s \in SUBSET T |-> g[s]]
    OBVIOUS
  <2> HIDE DEF g
  <2> QED BY <2>1, <2>2 DEF IsLoop
<1> QED BY <1>8

TheLoop(S) == CHOOSE g : IsLoop(g, S)

(* It is the loop of the code.                                             *)
LEMMA LoopOfCode ==
  ASSUME NEW S
  PROVE  AfterLoop(S) = TheLoop(S)[S]
BY DEF AfterLoop, MapThenFoldSet, TheLoop, IsLoop, NothingSeen

(* Each song is a step.                                                    *)
LEMMA LoopSteps ==
  ASSUME NEW S, Listing(S)
  PROVE  /\ TheLoop(S)[{}] = NothingSeen
         /\ \A s \in SUBSET S : s # {} =>
              TheLoop(S)[s] = NextSong(TheLoop(S)[s \ {LastSong(s)}], LastSong(s))
<1> DEFINE g == TheLoop(S)
<1>1. IsLoop(g, S)
  BY LoopExists DEF TheLoop
<1> HIDE DEF g
<1>2. \A s \in SUBSET S : g[s] = IF s = {} THEN NothingSeen
                                 ELSE NextSong(g[s \ {LastSong(s)}], LastSong(s))
  BY <1>1, Zenon DEF IsLoop
<1>3. {} \in SUBSET S
  OBVIOUS
<1>4. g[{}] = NothingSeen
  BY <1>2, <1>3
<1> QED BY <1>2, <1>4 DEF g

-----------------------------------------------------------------------------
(* CompilationDetector: what is known after each song.                     *)

SameDir(songs, dir) == {s \in songs : s.dir = dir}

\* All songs that come before one of these are among them.
IsStart(start, S) ==
  start \subseteq S /\ \A s \in start, t \in S : t.file <= s.file => t \in start

\* No song of another directory comes between two of this one.
DirTogether(S, dir) ==
  \A s, t \in SameDir(S, dir), u \in S : s.file < u.file /\ u.file < t.file => u.dir = dir

\* The directory is that of the last song.
SeenDirectory(seen, start) ==
  /\ seen.directory \subseteq start
  /\ start # {} => LastSong(start) \in seen.directory
  /\ \A s, t \in seen.directory : s.dir = t.dir

\* What is found is of more than two artists of a directory.
SeenResult(result, start) ==
  \A s \in result : \E dir \in SUBSET SameDir(start, s.dir) : s \in dir /\ Kept(dir) = dir

\* A directory that is in one piece is the present one, or dealt with.
SeenTogether(seen, start, S) ==
  \A s \in start : DirTogether(S, s.dir) =>
    \/ SameDir(start, s.dir) = seen.directory
    \/ SameDir(S, s.dir) \subseteq start /\ Kept(SameDir(S, s.dir)) \subseteq seen.result

SeenInv(seen, start, S) ==
  /\ SeenDirectory(seen, start)
  /\ SeenResult(seen.result, start)
  /\ SeenTogether(seen, start, S)

(* What is kept is all or nothing.                                         *)
LEMMA KeptOfKept ==
  ASSUME NEW songs, NEW s \in Kept(songs)
  PROVE  s \in songs /\ Kept(songs) = songs
BY DEF Kept

(* Without its last song, a start is one.                                  *)
LEMMA StartBefore ==
  ASSUME NEW S, Listing(S), NEW s, IsStart(s, S), s # {}
  PROVE  /\ LastSong(s) \in s
         /\ IsStart(s \ {LastSong(s)}, S)
         /\ \A t \in s \ {LastSong(s)} : t.file < LastSong(s).file
         /\ \A t \in S \ s : LastSong(s).file < t.file
<1> DEFINE x == LastSong(s)
<1>1. s \in SUBSET S /\ \A t \in S : t.file \in Int
  BY DEF IsStart, Listing
<1>2. x \in s /\ \A t \in s : t.file <= x.file
  BY <1>1, LastSongIsLast
<1> HIDE DEF x
<1>3. ASSUME NEW t \in s \ {x} PROVE t.file < x.file
  <2>1. t.file # x.file
    BY <1>1, <1>2 DEF Listing
  <2> QED BY <2>1, <1>1, <1>2
<1>4. ASSUME NEW t \in S \ s PROVE x.file < t.file
  <2>1. ~(t.file <= x.file)
    BY <1>2 DEF IsStart
  <2> QED BY <2>1, <1>1, <1>2
<1>5. ASSUME NEW u \in s \ {x}, NEW t \in S, t.file <= u.file PROVE t \in s \ {x}
  <2>1. t \in s
    BY <1>5 DEF IsStart
  <2>2. t # x
    BY <1>3, <1>5, <1>1, <1>2
  <2> QED BY <2>1, <2>2
<1>6. IsStart(s \ {x}, S)
  BY <1>1, <1>5 DEF IsStart
<1> QED BY <1>2, <1>3, <1>4, <1>6 DEF x

(* A song of the present directory joins it.                               *)
LEMMA SongJoins ==
  ASSUME NEW S, Listing(S), NEW s, IsStart(s, S), s # {}, NEW seen,
         SeenInv(seen, s \ {LastSong(s)}, S),
         seen = [directory |-> seen.directory, result |-> seen.result],
         \A t \in seen.directory : t.dir = LastSong(s).dir
  PROVE  /\ NextSong(seen, LastSong(s)) =
              [directory |-> seen.directory \cup {LastSong(s)}, result |-> seen.result]
         /\ SeenInv([directory |-> seen.directory \cup {LastSong(s)}, result |-> seen.result], s, S)
<1> DEFINE x == LastSong(s)
           b == s \ {x}
           directory == seen.directory \cup {x}
           new == [directory |-> directory, result |-> seen.result]
<1>1. x \in s /\ s \subseteq S /\ s = b \cup {x}
  BY StartBefore DEF IsStart
<1>2. SeenInv(seen, b, S)
  OBVIOUS
<1>3. \A t \in seen.directory : t.dir = x.dir
  OBVIOUS
<1>4. NextSong(seen, x) = new
  BY <1>3 DEF NextSong
<1> HIDE DEF x
<1>5. SeenDirectory(new, s)
  BY <1>1, <1>2, <1>3 DEF SeenInv, SeenDirectory, x
<1>6. SeenResult(seen.result, s)
  <2>1. \A dir : SameDir(b, dir) \subseteq SameDir(s, dir)
    BY DEF SameDir
  <2> QED BY <1>2, <2>1 DEF SeenInv, SeenResult
<1>7. ASSUME NEW u \in b, DirTogether(S, u.dir)
      PROVE  \/ SameDir(s, u.dir) = directory
             \/ SameDir(S, u.dir) \subseteq s /\ Kept(SameDir(S, u.dir)) \subseteq seen.result
  <2>1. CASE SameDir(b, u.dir) = seen.directory
    <3>1. u.dir = x.dir
      BY <2>1, <1>3, <1>7 DEF SameDir
    <3>2. SameDir(s, u.dir) = SameDir(b, u.dir) \cup {x}
      BY <3>1, <1>1 DEF SameDir
    <3> QED BY <3>2, <2>1
  <2>2. CASE SameDir(S, u.dir) \subseteq b /\ Kept(SameDir(S, u.dir)) \subseteq seen.result
    BY <2>2
  <2> QED BY <2>1, <2>2, <1>2, <1>7 DEF SeenInv, SeenTogether
<1>8. ASSUME DirTogether(S, x.dir)
      PROVE  SameDir(s, x.dir) = directory
  <2>1. CASE b = {}
    <3>1. seen.directory = {}
      BY <2>1, <1>2 DEF SeenInv, SeenDirectory
    <3> QED BY <3>1, <2>1, <1>1 DEF SameDir
  <2>2. CASE b # {}
    <3> DEFINE y == LastSong(b)
    <3>1. y \in b /\ y.dir = x.dir
      <4>1. y \in seen.directory
        BY <2>2, <1>2 DEF SeenInv, SeenDirectory
      <4> QED BY <4>1, <1>2, <1>3 DEF SeenInv, SeenDirectory
    <3> HIDE DEF y
    <3>2. ~(SameDir(S, x.dir) \subseteq b)
      BY <1>1 DEF SameDir
    <3>3. SameDir(b, x.dir) = seen.directory
      BY <3>1, <3>2, <1>2, <1>8 DEF SeenInv, SeenTogether
    <3>4. SameDir(s, x.dir) = SameDir(b, x.dir) \cup {x}
      BY <1>1 DEF SameDir
    <3> QED BY <3>3, <3>4
  <2> QED BY <2>1, <2>2
<1>9. SeenTogether(new, s, S)
  <2>1. new.directory = directory /\ new.result = seen.result
    OBVIOUS
  <2> HIDE DEF new, directory
  <2> QED BY <2>1, <1>1, <1>7, <1>8 DEF SeenTogether
<1>10. SeenInv(new, s, S)
  BY <1>5, <1>6, <1>9 DEF SeenInv
<1> QED BY <1>4, <1>10 DEF x

(* A song of another directory ends the present one.                       *)
LEMMA SongEnds ==
  ASSUME NEW S, Listing(S), NEW s, IsStart(s, S), s # {}, NEW seen,
         SeenInv(seen, s \ {LastSong(s)}, S),
         NEW e \in seen.directory, e.dir # LastSong(s).dir
  PROVE  /\ NextSong(seen, LastSong(s)) =
              [directory |-> {LastSong(s)}, result |-> seen.result \cup Kept(seen.directory)]
         /\ SeenInv([directory |-> {LastSong(s)},
                     result |-> seen.result \cup Kept(seen.directory)], s, S)
<1> DEFINE x == LastSong(s)
           b == s \ {x}
           result == seen.result \cup Kept(seen.directory)
           new == [directory |-> {x}, result |-> result]
<1>1. /\ x \in s /\ s \subseteq S /\ s = b \cup {x}
      /\ \A t \in b : t.file < x.file
      /\ \A t \in S \ s : x.file < t.file
  BY StartBefore DEF IsStart
<1>2. SeenInv(seen, b, S)
  OBVIOUS
<1>3. \A t \in seen.directory : t.dir # x.dir
  BY <1>2 DEF SeenInv, SeenDirectory
<1>4. NextSong(seen, x) = new
  BY DEF NextSong
<1>5. \A t \in S : t.file \in Int
  BY DEF Listing
<1>6. b # {} /\ seen.directory \subseteq b
  BY <1>2 DEF SeenInv, SeenDirectory
<1>7. SeenDirectory(new, s)
  BY <1>1 DEF SeenDirectory
<1> HIDE DEF x
<1>8. SeenResult(result, s)
  <2>1. \A dir : SameDir(b, dir) \subseteq SameDir(s, dir)
    BY DEF SameDir
  <2>2. ASSUME NEW t \in Kept(seen.directory)
        PROVE  \E dir \in SUBSET SameDir(s, t.dir) : t \in dir /\ Kept(dir) = dir
    <3>1. t \in seen.directory /\ Kept(seen.directory) = seen.directory
      BY <2>2, KeptOfKept
    <3>2. seen.directory \subseteq SameDir(s, t.dir)
      BY <3>1, <1>2, <1>6 DEF SeenInv, SeenDirectory, SameDir
    <3> QED BY <3>1, <3>2
  <2>3. ASSUME NEW t \in seen.result
        PROVE  \E dir \in SUBSET SameDir(s, t.dir) : t \in dir /\ Kept(dir) = dir
    BY <1>2, <2>1 DEF SeenInv, SeenResult
  <2> QED BY <2>2, <2>3 DEF SeenResult
<1>9. ASSUME NEW u \in b, DirTogether(S, u.dir)
      PROVE  SameDir(S, u.dir) \subseteq s /\ Kept(SameDir(S, u.dir)) \subseteq result
  <2>1. CASE SameDir(b, u.dir) = seen.directory
    <3>1. u \in S /\ u \in seen.directory /\ u.dir # x.dir
      BY <2>1, <1>1, <1>3 DEF SameDir
    <3>2. ASSUME NEW w \in SameDir(S, u.dir) PROVE w \in b
      <4> SUFFICES ASSUME w \notin b PROVE FALSE
        OBVIOUS
      <4>1. w \in S /\ w.dir = u.dir
        BY DEF SameDir
      <4>2. w \notin s
        BY <4>1, <3>1, <1>1
      <4>3. u.file < x.file /\ x.file < w.file
        BY <4>1, <4>2, <1>1
      <4>4. u \in SameDir(S, u.dir)
        BY <3>1 DEF SameDir
      <4> QED BY <4>3, <4>4, <3>1, <1>1, <1>9 DEF DirTogether
    <3>3. SameDir(S, u.dir) = SameDir(b, u.dir)
      BY <3>2, <1>1 DEF SameDir
    <3> QED BY <3>2, <3>3, <2>1
  <2>2. CASE SameDir(S, u.dir) \subseteq b /\ Kept(SameDir(S, u.dir)) \subseteq seen.result
    BY <2>2
  <2> QED BY <2>1, <2>2, <1>2, <1>9 DEF SeenInv, SeenTogether
<1>10. ASSUME DirTogether(S, x.dir)
       PROVE  SameDir(s, x.dir) = {x}
  <2>1. IsStart(b, S)
    BY StartBefore DEF x
  <2> DEFINE y == LastSong(b)
  <2>2. y \in b /\ y.dir # x.dir
    BY <1>2, <1>3, <1>6 DEF SeenInv, SeenDirectory
  <2>3. \A t \in b \ {y} : t.file < y.file
    BY <2>1, <1>6, StartBefore
  <2> HIDE DEF y
  <2>4. ASSUME NEW v \in SameDir(b, x.dir) PROVE FALSE
    <3>1. v \in b /\ v.dir = x.dir
      BY DEF SameDir
    <3>2. v.file < y.file /\ y.file < x.file
      BY <3>1, <2>2, <2>3, <1>1
    <3>3. v \in SameDir(S, x.dir) /\ x \in SameDir(S, x.dir)
      BY <3>1, <1>1 DEF SameDir
    <3> QED BY <3>2, <3>3, <2>2, <1>1, <1>10 DEF DirTogether
  <2> QED BY <2>4, <1>1 DEF SameDir
<1>11. SeenTogether(new, s, S)
  <2>1. new.directory = {x} /\ new.result = result
    OBVIOUS
  <2> HIDE DEF new, result
  <2> QED BY <2>1, <1>1, <1>9, <1>10 DEF SeenTogether
<1>12. SeenInv(new, s, S)
  BY <1>7, <1>8, <1>11 DEF SeenInv
<1> QED BY <1>4, <1>12 DEF x

(* So it is after each song.                                               *)
LEMMA LoopKeeps ==
  ASSUME NEW S, Listing(S)
  PROVE  /\ SeenInv(AfterLoop(S), S, S)
         /\ AfterLoop(S) = [directory |-> AfterLoop(S).directory, result |-> AfterLoop(S).result]
<1> DEFINE g == TheLoop(S)
           Good(s) == SeenInv(g[s], s, S)
                      /\ g[s] = [directory |-> g[s].directory, result |-> g[s].result]
           Bad == {s \in SUBSET S : IsStart(s, S) /\ ~Good(s)}
<1>1. /\ g[{}] = NothingSeen
      /\ \A s \in SUBSET S : s # {} => g[s] = NextSong(g[s \ {LastSong(s)}], LastSong(s))
  BY LoopSteps
<1> HIDE DEF g
<1>2. Bad = {}
  <2> SUFFICES ASSUME Bad # {} PROVE FALSE
    OBVIOUS
  <2>1. PICK s \in Bad : \A U \in Bad : U \subseteq s => U = s
    <3>1. Bad \in SUBSET (SUBSET S)
      OBVIOUS
    <3> HIDE DEF Bad
    <3> QED BY <3>1, SmallestSubset DEF Listing
  <2>2. IsStart(s, S) /\ ~Good(s) /\ s \in SUBSET S
    BY <2>1
  <2>3. CASE s = {}
    <3>1. g[s] = [directory |-> {}, result |-> {}]
      BY <2>3, <1>1 DEF NothingSeen
    <3>2. SeenInv([directory |-> {}, result |-> {}], {}, S)
      BY DEF SeenInv, SeenDirectory, SeenResult, SeenTogether
    <3> QED BY <3>1, <3>2, <2>2, <2>3
  <2>4. CASE s # {}
    <3> DEFINE x == LastSong(s)
               seen == g[s \ {x}]
    <3>1. x \in s /\ IsStart(s \ {x}, S)
      BY <2>2, <2>4, StartBefore
    <3>2. Good(s \ {x})
      <4>1. s \ {x} \notin Bad
        BY <2>1, <3>1
      <4> HIDE DEF x, Good
      <4> QED BY <4>1, <3>1, <2>2
    <3>3. g[s] = NextSong(seen, x)
      BY <1>1, <2>2, <2>4
    <3> HIDE DEF seen
    <3>4. SeenInv(seen, s \ {LastSong(s)}, S)
          /\ seen = [directory |-> seen.directory, result |-> seen.result]
      BY <3>2 DEF seen
    <3>5. CASE \A t \in seen.directory : t.dir = x.dir
      <4> DEFINE new == [directory |-> seen.directory \cup {x}, result |-> seen.result]
      <4>1. NextSong(seen, LastSong(s)) = new /\ SeenInv(new, s, S)
        BY <3>4, <3>5, <2>2, <2>4, SongJoins
      <4>2. g[s] = new
        BY <4>1, <3>3
      <4>3. new = [directory |-> new.directory, result |-> new.result]
        OBVIOUS
      <4> HIDE DEF new
      <4> QED BY <4>1, <4>2, <4>3, <2>2
    <3>6. CASE \E t \in seen.directory : t.dir # x.dir
      <4> DEFINE new == [directory |-> {x}, result |-> seen.result \cup Kept(seen.directory)]
      <4>1. PICK e \in seen.directory : e.dir # LastSong(s).dir
        BY <3>6
      <4>2. NextSong(seen, LastSong(s)) = new /\ SeenInv(new, s, S)
        BY <4>1, <3>4, <2>2, <2>4, SongEnds
      <4>3. g[s] = new
        BY <4>2, <3>3
      <4>4. new = [directory |-> new.directory, result |-> new.result]
        OBVIOUS
      <4> HIDE DEF new
      <4> QED BY <4>2, <4>3, <4>4, <2>2
    <3> QED BY <3>5, <3>6
  <2> QED BY <2>3, <2>4
<1>3. S \in SUBSET S /\ IsStart(S, S)
  BY DEF IsStart
<1>4. Good(S)
  BY <1>2, <1>3
<1> QED BY <1>4, LoopOfCode DEF g

(* What is found of the songs of an album: only songs of more than two     *)
(* artists of a directory, and all of a directory that is in one piece.    *)
LEMMA FoundOfAlbum ==
  ASSUME NEW S, Listing(S)
  PROVE  /\ \A s \in CompilationSongsOfAlbumSongs(S) :
              \E dir \in SUBSET SameDir(S, s.dir) : s \in dir /\ Kept(dir) = dir
         /\ \A s \in S : DirTogether(S, s.dir) =>
              Kept(SameDir(S, s.dir)) \subseteq CompilationSongsOfAlbumSongs(S)
<1> DEFINE seen == AfterLoop(S)
<1>1. SeenInv(seen, S, S)
  BY LoopKeeps
<1>2. CompilationSongsOfAlbumSongs(S) = seen.result \cup Kept(seen.directory)
  BY DEF CompilationSongsOfAlbumSongs
<1> HIDE DEF seen
<1>3. ASSUME NEW s \in Kept(seen.directory)
      PROVE  \E dir \in SUBSET SameDir(S, s.dir) : s \in dir /\ Kept(dir) = dir
  <2>1. s \in seen.directory /\ Kept(seen.directory) = seen.directory
    BY <1>3, KeptOfKept
  <2>2. seen.directory \subseteq SameDir(S, s.dir)
    BY <2>1, <1>1 DEF SeenInv, SeenDirectory, SameDir
  <2> QED BY <2>1, <2>2
<1>4. ASSUME NEW s \in seen.result
      PROVE  \E dir \in SUBSET SameDir(S, s.dir) : s \in dir /\ Kept(dir) = dir
  BY <1>1 DEF SeenInv, SeenResult
<1>5. ASSUME NEW s \in S, DirTogether(S, s.dir)
      PROVE  Kept(SameDir(S, s.dir)) \subseteq seen.result \cup Kept(seen.directory)
  <2>1. CASE SameDir(S, s.dir) = seen.directory
    BY <2>1
  <2>2. CASE Kept(SameDir(S, s.dir)) \subseteq seen.result
    BY <2>2
  <2> QED BY <2>1, <2>2, <1>1, <1>5 DEF SeenInv, SeenTogether
<1> QED BY <1>2, <1>3, <1>4, <1>5

(* Some of the songs of a library are one.                                 *)
LEMMA ListingOfSome ==
  ASSUME NEW S, Listing(S), NEW T \in SUBSET S
  PROVE  Listing(T)
BY FS_Subset DEF Listing

(* The artists of finitely many songs are finitely many.                   *)
LEMMA ArtistsFinite ==
  ASSUME NEW S, IsFiniteSet(S)
  PROVE  IsFiniteSet({s.artist : s \in S})
<1> DEFINE T == {s.artist : s \in S}
           f == [s \in S |-> s.artist]
<1>1. f \in Surjection(S, T)
  BY DEF Surjection
<1> HIDE DEF f, T
<1>2. IsFiniteSet(T)
  BY <1>1, FS_Surjection
<1> QED BY <1>2 DEF T

(* If some songs are of more than two artists, so are more songs.          *)
LEMMA MoreAreKept ==
  ASSUME NEW S, IsFiniteSet(S), NEW T \in SUBSET S, Kept(T) # {}
  PROVE  Kept(S) = S
<1> DEFINE inS == {s.artist : s \in S}
           inT == {s.artist : s \in T}
<1>1. Cardinality(inT) > 2
  BY DEF Kept
<1>2. IsFiniteSet(inS) /\ IsFiniteSet(inT)
  BY ArtistsFinite, FS_Subset
<1>3. inT \in SUBSET inS
  OBVIOUS
<1>4. Cardinality(inT) <= Cardinality(inS)
  <2> HIDE DEF inS, inT
  <2> QED BY <1>2, <1>3, FS_Subset
<1>5. Cardinality(inS) \in Nat /\ Cardinality(inT) \in Nat
  <2> HIDE DEF inS, inT
  <2> QED BY <1>2, FS_CardinalityType
<1>6. Cardinality(inS) > 2
  <2> HIDE DEF inS, inT
  <2> QED BY <1>1, <1>4, <1>5
<1> QED BY <1>6 DEF Kept

\* The songs that the detector looks at, of one album
KnownOfAlbum(songs, album) ==
  {s \in songs : s.artist # Unknown /\ s.album # Unknown /\ s.album = album}

(* The results, album by album.                                            *)
LEMMA ResultsByAlbum ==
  ASSUME NEW songs, NEW s
  PROVE  s \in DataSourceResults(songs) <=>
           \E album \in {t.album : t \in songs} :
             /\ KnownOfAlbum(songs, album) # {}
             /\ s \in CompilationSongsOfAlbumSongs(Kept(KnownOfAlbum(songs, album)))
<1> DEFINE known == {t \in songs : t.artist # Unknown /\ t.album # Unknown}
           OfAlbum(a) == {t \in known : t.album = a}
<1>1. \A a : OfAlbum(a) = KnownOfAlbum(songs, a)
  BY DEF KnownOfAlbum
<1>2. s \in DataSourceResults(songs) <=>
        \E a \in {t.album : t \in known} : s \in CompilationSongsOfAlbumSongs(Kept(OfAlbum(a)))
  BY DEF DataSourceResults
<1>3. \A a : a \in {t.album : t \in known} <=> OfAlbum(a) # {}
  OBVIOUS
<1>4. \A a : OfAlbum(a) # {} => a \in {t.album : t \in songs}
  OBVIOUS
<1> HIDE DEF OfAlbum, known
<1> QED BY <1>1, <1>2, <1>3, <1>4, Zenon

(* What is found is in the library, by a known artist, of an album of      *)
(* which more than two artists share the directory.                        *)
LEMMA FoundOfLibrary ==
  ASSUME NEW songs, Listing(songs), NEW s \in DataSourceResults(songs)
  PROVE  \E dir \in SUBSET KnownOfAlbum(songs, s.album) :
           /\ s \in dir /\ Kept(dir) = dir
           /\ \A t \in dir : t.dir = s.dir
<1>1. PICK album \in {t.album : t \in songs} :
        s \in CompilationSongsOfAlbumSongs(Kept(KnownOfAlbum(songs, album)))
  BY ResultsByAlbum
<1> DEFINE S == Kept(KnownOfAlbum(songs, album))
<1>2. S \subseteq KnownOfAlbum(songs, album) /\ S \subseteq songs
  BY DEF Kept, KnownOfAlbum
<1>3. Listing(S)
  BY <1>2, ListingOfSome
<1> HIDE DEF S
<1>4. PICK dir \in SUBSET SameDir(S, s.dir) : s \in dir /\ Kept(dir) = dir
  BY <1>1, <1>3, FoundOfAlbum DEF S
<1>5. s.album = album /\ dir \subseteq KnownOfAlbum(songs, album) /\ \A t \in dir : t.dir = s.dir
  BY <1>2, <1>4 DEF SameDir, KnownOfAlbum
<1> QED BY <1>4, <1>5

(* The detector finds songs of the library.                                *)
LEMMA FoundInLibrary ==
  ASSUME NEW songs, Listing(songs)
  PROVE  DataSourceResults(songs) \subseteq songs
BY FoundOfLibrary DEF KnownOfAlbum

-----------------------------------------------------------------------------
(* CompilationDetector: what is found.                                     *)

(* Only songs of compilations are found.                                   *)
LEMMA FoundAreCompilations ==
  ASSUME Listing(DetectorSongs)
  PROVE  DataSourceResults(DetectorSongs) \subseteq Compilations
<1> SUFFICES ASSUME NEW s \in DataSourceResults(DetectorSongs)
             PROVE  s \in Compilations
  OBVIOUS
<1>1. PICK dir \in SUBSET KnownOfAlbum(DetectorSongs, s.album) :
        /\ s \in dir /\ Kept(dir) = dir
        /\ \A t \in dir : t.dir = s.dir
  BY FoundOfLibrary
<1>2. s \in DetectorSongs /\ s.artist # Unknown /\ s.album # Unknown
  BY <1>1 DEF KnownOfAlbum
<1>3. dir \in SUBSET Directory(s)
  BY <1>1 DEF KnownOfAlbum, Directory
<1>4. IsFiniteSet(Directory(s))
  <2>1. Directory(s) \in SUBSET DetectorSongs
    BY DEF Directory
  <2> QED BY <2>1, FS_Subset DEF Listing
<1>5. Kept(Directory(s)) = Directory(s)
  BY <1>1, <1>3, <1>4, MoreAreKept
<1>6. Kept(Directory(s)) # {}
  BY <1>1, <1>3, <1>5
<1> QED BY <1>2, <1>6 DEF Compilations

(* A compilation in one piece is found.                                    *)
LEMMA UnbrokenAreFound ==
  ASSUME Listing(DetectorSongs), NEW s \in Compilations, Unbroken(s)
  PROVE  s \in DataSourceResults(DetectorSongs)
<1> DEFINE S == KnownOfAlbum(DetectorSongs, s.album)
<1>1. s \in DetectorSongs /\ s.artist # Unknown /\ s.album # Unknown /\ Kept(Directory(s)) # {}
  BY DEF Compilations
<1>2. Directory(s) \in SUBSET S /\ Directory(s) = SameDir(S, s.dir)
  BY <1>1 DEF KnownOfAlbum, Directory, SameDir
<1>3. S \in SUBSET DetectorSongs /\ s \in S
  BY <1>1 DEF KnownOfAlbum
<1>4. DirTogether(S, s.dir)
  BY <1>2, <1>3 DEF Unbroken, DirTogether, KnownOfAlbum
<1> HIDE DEF S
<1>5. Listing(S)
  BY <1>3, ListingOfSome
<1>6. Kept(S) = S
  BY <1>1, <1>2, <1>5, MoreAreKept DEF Listing
<1>7. Kept(SameDir(S, s.dir)) \subseteq CompilationSongsOfAlbumSongs(S)
  BY <1>3, <1>4, <1>5, FoundOfAlbum
<1>8. s \in Kept(Directory(s))
  <2>1. s \in Directory(s)
    BY <1>2, <1>3 DEF SameDir
  <2> QED BY <2>1, <1>1 DEF Kept
<1>9. s \in CompilationSongsOfAlbumSongs(Kept(S))
  BY <1>2, <1>6, <1>7, <1>8
<1>10. s.album \in {t.album : t \in DetectorSongs} /\ S # {}
  BY <1>1, <1>3
<1> QED BY <1>9, <1>10, ResultsByAlbum DEF S

\* The files are numbered in their order.
FilesInv ==
  /\ Len(files) \in Nat
  /\ files = [i \in 1..Len(files) |-> files[i]]
  /\ \A i \in 1..Len(files) : files[i].file = i

(* So the songs are a list.                                                *)
LEMMA SongsAreListing == FilesInv => Listing(DetectorSongs)
<1> SUFFICES ASSUME FilesInv PROVE Listing(DetectorSongs)
  OBVIOUS
<1>1. Len(files) \in Nat /\ DOMAIN files = 1..Len(files)
      /\ \A i \in 1..Len(files) : files[i].file = i
  BY DEF FilesInv
<1> DEFINE n == Len(files)
           f == [i \in 1..n |-> files[i]]
<1>2. f \in Surjection(1..n, DetectorSongs)
  BY <1>1 DEF Surjection, DetectorSongs
<1>3. IsFiniteSet(1..n)
  BY <1>1, FS_Interval
<1>4. IsFiniteSet(DetectorSongs)
  <2> HIDE DEF f, n
  <2> QED BY <1>2, <1>3, FS_Surjection
<1>5. \A s \in DetectorSongs : \E i \in 1..n : s = files[i] /\ s.file = i
  BY <1>1 DEF DetectorSongs
<1> HIDE DEF n
<1>6. \A s \in DetectorSongs : s.file \in Int
  BY <1>5
<1>7. \A s, t \in DetectorSongs : s.file = t.file => s = t
  BY <1>5
<1> QED BY <1>4, <1>6, <1>7 DEF Listing

(* Files are added at the end.                                             *)
LEMMA FilesInvStep == FilesInv /\ [DetectorNext]_files => FilesInv'
<1> SUFFICES ASSUME FilesInv, [DetectorNext]_files PROVE FilesInv'
  OBVIOUS
<1>1. CASE files' = files
  BY <1>1 DEF FilesInv
<1>2. ASSUME NEW plan \in FilePlans, ImportFile(plan) PROVE FilesInv'
  <2> DEFINE n == Len(files)
             song == [plan EXCEPT !.file = n + 1]
  <2>1. n \in Nat /\ files = [i \in 1..n |-> files[i]] /\ \A i \in 1..n : files[i].file = i
    BY DEF FilesInv
  <2>2. song.file = n + 1
    BY DetectorAssumption
  <2>3. files' = Append(files, song)
    BY <1>2 DEF ImportFile
  <2> HIDE DEF n, song
  <2>4. Len(files') = n + 1 /\ files' = [i \in 1..n + 1 |-> IF i = n + 1 THEN song ELSE files[i]]
    <3> DEFINE T == {files[i] : i \in 1..n} \cup {song}
    <3>1. files \in Seq(T) /\ song \in T
      BY <2>1
    <3> HIDE DEF T
    <3>2. /\ files' \in Seq(T) /\ Len(files') = n + 1
          /\ \A i \in 1..n : files'[i] = files[i]
          /\ files'[n + 1] = song
      BY <3>1, <2>3, AppendProperties DEF n
    <3>3. files' = [i \in 1..n + 1 |-> files'[i]]
      BY <3>2
    <3> QED BY <3>2, <3>3, <2>1
  <2>5. \A i \in 1..n + 1 : i \in 1..n \/ i = n + 1
    BY <2>1
  <2>6. \A i \in 1..n + 1 : files'[i].file = i
    BY <2>1, <2>2, <2>4, <2>5
  <2> QED BY <2>1, <2>4, <2>6 DEF FilesInv
<1> QED BY <1>1, <1>2 DEF DetectorNext

(* CompilationDetector: whatever the files, their artists, albums and      *)
(* directories are, only songs of an album and a directory of more than    *)
(* two artists are found, and all of those that no file of the album in    *)
(* another directory comes between.                                        *)
THEOREM DetectorFinds == DetectorSpec => []DetectorFindsCompilations
<1>1. DetectorInit => FilesInv
  BY DEF DetectorInit, FilesInv
<1>2. FilesInv => DetectorFindsCompilations
  BY SongsAreListing, FoundAreCompilations, UnbrokenAreFound DEF DetectorFindsCompilations
<1> QED BY <1>1, <1>2, FilesInvStep, PTL DEF DetectorSpec

-----------------------------------------------------------------------------
(* LibraryBrowser: the columns.                                            *)

OnColumns(f) == DOMAIN f = ColumnNames /\ f = [c \in ColumnNames |-> f[c]]

\* What a reload works on
OnView(v) ==
  /\ OnColumns(v.items) /\ OnColumns(v.selected) /\ OnColumns(v.saved)
  /\ v = [items |-> v.items, selected |-> v.selected, saved |-> v.saved,
          library |-> v.library, search |-> v.search]

\* From v to w, only the given columns have changed.
Touches(v, w, columns) ==
  /\ OnView(w) /\ w.library = v.library /\ w.search = v.search
  /\ \A d \in ColumnNames \ columns :
       w.items[d] = v.items[d] /\ w.selected[d] = v.selected[d] /\ w.saved[d] = v.saved[d]

(* One column is changed.                                                  *)
LEMMA OneColumn ==
  ASSUME NEW f, OnColumns(f), NEW c \in ColumnNames, NEW e
  PROVE  LET g == [f EXCEPT ![c] = e] IN
         OnColumns(g) /\ g[c] = e /\ \A d \in ColumnNames \ {c} : g[d] = f[d]
BY DEF OnColumns

LEMMA ItemsAreSet ==
  ASSUME NEW v, OnView(v), NEW c \in ColumnNames, NEW rows
  PROVE  LET w == SetItems(v, c, rows) IN
         /\ Touches(v, w, {c})
         /\ w.items[c] = rows /\ w.selected = v.selected /\ w.saved = v.saved
<1> DEFINE new == [v.items EXCEPT ![c] = rows]
           w == SetItems(v, c, rows)
<1>1. w = [items |-> new, selected |-> v.selected, saved |-> v.saved,
           library |-> v.library, search |-> v.search]
  BY DEF SetItems, OnView
<1>2. OnColumns(new) /\ new[c] = rows /\ \A d \in ColumnNames \ {c} : new[d] = v.items[d]
  BY OneColumn DEF OnView
<1> HIDE DEF w, new
<1>3. /\ w.items = new /\ w.selected = v.selected /\ w.saved = v.saved
      /\ w.library = v.library /\ w.search = v.search
  BY <1>1
<1>4. OnView(w)
  BY <1>1, <1>2, <1>3 DEF OnView
<1> QED BY <1>2, <1>3, <1>4 DEF Touches, w

LEMMA SelectionIsSet ==
  ASSUME NEW v, OnView(v), NEW c \in ColumnNames, NEW rows
  PROVE  LET w == SetSelection(v, c, rows) IN
         /\ Touches(v, w, {c})
         /\ w.items = v.items /\ w.selected[c] = rows /\ w.saved = v.saved
<1> DEFINE new == [v.selected EXCEPT ![c] = rows]
           w == SetSelection(v, c, rows)
<1>1. w = [items |-> v.items, selected |-> new, saved |-> v.saved,
           library |-> v.library, search |-> v.search]
  BY DEF SetSelection, OnView
<1>2. OnColumns(new) /\ new[c] = rows /\ \A d \in ColumnNames \ {c} : new[d] = v.selected[d]
  BY OneColumn DEF OnView
<1> HIDE DEF w, new
<1>3. /\ w.items = v.items /\ w.selected = new /\ w.saved = v.saved
      /\ w.library = v.library /\ w.search = v.search
  BY <1>1
<1>4. OnView(w)
  BY <1>1, <1>2, <1>3 DEF OnView
<1> QED BY <1>2, <1>3, <1>4 DEF Touches, w

LEMMA SavedIsSet ==
  ASSUME NEW v, OnView(v), NEW c \in ColumnNames, NEW info
  PROVE  LET w == SetSaved(v, c, info) IN
         /\ Touches(v, w, {c})
         /\ w.items = v.items /\ w.selected = v.selected /\ w.saved[c] = info
<1> DEFINE new == [v.saved EXCEPT ![c] = info]
           w == SetSaved(v, c, info)
<1>1. w = [items |-> v.items, selected |-> v.selected, saved |-> new,
           library |-> v.library, search |-> v.search]
  BY DEF SetSaved, OnView
<1>2. OnColumns(new) /\ new[c] = info /\ \A d \in ColumnNames \ {c} : new[d] = v.saved[d]
  BY OneColumn DEF OnView
<1> HIDE DEF w, new
<1>3. /\ w.items = v.items /\ w.selected = v.selected /\ w.saved = new
      /\ w.library = v.library /\ w.search = v.search
  BY <1>1
<1>4. OnView(w)
  BY <1>1, <1>2, <1>3 DEF OnView
<1> QED BY <1>2, <1>3, <1>4 DEF Touches, w

(* Changes add up.                                                         *)
LEMMA TouchesBoth ==
  ASSUME NEW u, NEW v, NEW w, NEW columns, NEW others,
         Touches(u, v, columns), Touches(v, w, others)
  PROVE  Touches(u, w, columns \cup others)
BY DEF Touches

LEMMA TouchesMore ==
  ASSUME NEW v, NEW w, NEW columns, NEW others, Touches(v, w, columns), columns \subseteq others
  PROVE  Touches(v, w, others)
BY DEF Touches

(* The columns from left to right.                                         *)
LEMMA ColumnOrder ==
  /\ LeftOf("genre") = {} /\ LeftOf("artist") = {"genre"}
  /\ LeftOf("album") = {"genre", "artist"} /\ LeftOf("song") = {"genre", "artist", "album"}
  /\ "genre" \in ColumnNames /\ "artist" \in ColumnNames
  /\ "album" \in ColumnNames /\ "song" \in ColumnNames
BY DEF LeftOf, ColumnNames

(* What a column shows depends on the selections to its left.              *)
LEMMA RowsByLeft ==
  ASSUME NEW v, NEW w, NEW c, v.library = w.library, v.search = w.search,
         \A d \in LeftOf(c) : v.selected[d] = w.selected[d]
  PROVE  RowsOf(v, c) = RowsOf(w, c)
<1>1. {RequiredFilters(v.library, d, v.selected[d]) : d \in LeftOf(c)}
        = {RequiredFilters(w.library, d, w.selected[d]) : d \in LeftOf(c)}
  OBVIOUS
<1> QED BY <1>1 DEF RowsOf

LEMMA RowsUntouched ==
  ASSUME NEW v, NEW w, NEW columns, Touches(v, w, columns),
         NEW c \in ColumnNames, LeftOf(c) \cap columns = {}
  PROVE  RowsOf(v, c) = RowsOf(w, c)
<1>1. LeftOf(c) \subseteq ColumnNames \ columns
  BY ColumnOrder DEF ColumnNames
<1> QED BY <1>1, RowsByLeft DEF Touches

\* A column that has the rows that it would have after a reload
Fresh(v, c) == v.items[c] = RowsOf(v, c)

LEMMA StaysFresh ==
  ASSUME NEW v, NEW w, NEW columns, Touches(v, w, columns),
         NEW c \in ColumnNames \ columns, LeftOf(c) \cap columns = {}, Fresh(v, c)
  PROVE  Fresh(w, c)
BY RowsUntouched DEF Touches, Fresh

(* The steps of a reload, each of one column.                              *)
LEMMA Saves ==
  ASSUME NEW v, OnView(v), NEW c \in ColumnNames
  PROVE  LET w == SaveSelection(v, c) IN
         /\ Touches(v, w, {c}) /\ w.items = v.items /\ w.selected = v.selected
         /\ w.saved[c] = SaveSelectionInformation(c, v.selected[c])
<1> DEFINE info == SaveSelectionInformation(c, v.selected[c])
<1>1. SaveSelection(v, c) = SetSaved(v, c, info)
  BY DEF SaveSelection
<1>2. info = SaveSelectionInformation(c, v.selected[c])
  OBVIOUS
<1> HIDE DEF info
<1> QED BY <1>1, <1>2, SavedIsSet

LEMMA Empties ==
  ASSUME NEW v, OnView(v), NEW c \in ColumnNames
  PROVE  LET w == Emptied(v, c) IN
         /\ Touches(v, w, {c}) /\ w.saved = v.saved
         /\ w.items[c] = {} /\ w.selected[c] = {}
<1> DEFINE u == SetItems(v, c, {})
           w == SetSelection(u, c, {})
<1>1. Touches(v, u, {c}) /\ u.items[c] = {} /\ u.saved = v.saved
  BY ItemsAreSet
<1> HIDE DEF u
<1>2. Touches(u, w, {c}) /\ w.items = u.items /\ w.selected[c] = {} /\ w.saved = u.saved
  BY <1>1, SelectionIsSet DEF Touches
<1> HIDE DEF w
<1>3. Touches(v, w, {c})
  BY <1>1, <1>2 DEF Touches
<1>4. w = Emptied(v, c)
  BY DEF w, u, Emptied
<1> QED BY <1>1, <1>2, <1>3, <1>4

LEMMA Requests ==
  ASSUME NEW v, OnView(v), NEW c \in ColumnNames
  PROVE  LET w == RequestItems(v, c) IN
         /\ Touches(v, w, {c})
         /\ w.items[c] = RowsOf(v, c) /\ Fresh(w, c)
         /\ w.selected[c] = LoadSelection(c, v.saved[c], RowsOf(v, c))
<1> DEFINE rows == RowsOf(v, c)
           loaded == LoadSelection(c, v.saved[c], rows)
           t == SetItems(v, c, rows)
           u == SetSelection(t, c, loaded)
           w == SetSaved(u, c, NothingSaved)
<1>1. w = RequestItems(v, c)
  BY DEF RequestItems
<1>2. loaded = LoadSelection(c, v.saved[c], RowsOf(v, c))
  OBVIOUS
<1> HIDE DEF loaded, rows
<1>3. Touches(v, t, {c}) /\ t.items[c] = rows
  BY ItemsAreSet
<1> HIDE DEF t
<1>4. Touches(t, u, {c}) /\ u.items = t.items /\ u.selected[c] = loaded
  BY <1>3, SelectionIsSet DEF Touches
<1> HIDE DEF u
<1>5. Touches(u, w, {c}) /\ w.items = u.items /\ w.selected = u.selected
  BY <1>4, SavedIsSet DEF Touches
<1> HIDE DEF w
<1>6. Touches(v, w, {c})
  BY <1>3, <1>4, <1>5 DEF Touches
<1>7. RowsOf(v, c) = RowsOf(w, c)
  <2>1. LeftOf(c) \cap {c} = {}
    BY ColumnOrder DEF ColumnNames
  <2> QED BY <2>1, <1>6, RowsUntouched
<1> QED BY <1>1, <1>2, <1>3, <1>4, <1>5, <1>6, <1>7 DEF rows, Fresh

\* Selected again in column c: what was, as far as it is there
LoadedAgain(v, c) ==
  LoadSelection(c, SaveSelectionInformation(c, v.selected[c]), RowsOf(v, c))

\* No column to the left of c, nor c itself
Behind(c, right) == right \subseteq ColumnNames \ {c} /\ LeftOf(c) \cap right = {}

(* A column reloads: what was saved for it is loaded, and only a column    *)
(* that has lost a selection disturbs others.                              *)
LEMMA OneReloads ==
  ASSUME NEW v, OnView(v), NEW c \in ColumnNames,
         NEW right, Behind(c, right), NEW report,
         Touches(Emptied(v, c), report, right), NEW w, w = RequestItems(UpdateLibraryDataSource(v, c, report), c)
  PROVE  /\ Touches(v, w, {c} \cup right) /\ Fresh(w, c)
         /\ w.selected[c] = LoadSelection(c, v.saved[c], RowsOf(v, c))
         /\ v.selected[c] = {} => Touches(v, w, {c})
         /\ v.selected[c] # {} => Touches(report, w, {c})
<1> DEFINE u == UpdateLibraryDataSource(v, c, report)
<1>1. /\ Touches(v, Emptied(v, c), {c}) /\ OnView(Emptied(v, c))
      /\ Emptied(v, c).saved = v.saved
  BY Empties DEF Touches
<1>2. u = IF v.selected[c] = {} THEN Emptied(v, c) ELSE report
  BY DEF UpdateLibraryDataSource
<1> HIDE DEF u
<1>3. /\ Touches(v, u, {c} \cup right) /\ u.saved[c] = v.saved[c]
      /\ v.selected[c] = {} => Touches(v, u, {c})
  <2>1. CASE v.selected[c] = {}
    BY <2>1, <1>1, <1>2, TouchesMore DEF Touches
  <2>2. CASE v.selected[c] # {}
    <3>1. Touches(v, report, {c} \cup right)
      BY <1>1, TouchesBoth
    <3>2. report.saved[c] = v.saved[c]
      BY <1>1 DEF Touches, Behind
    <3> QED BY <3>1, <3>2, <2>2, <1>2
  <2> QED BY <2>1, <2>2
<1>4. /\ Touches(u, w, {c}) /\ Fresh(w, c)
      /\ w.selected[c] = LoadSelection(c, u.saved[c], RowsOf(u, c))
  <2>1. w = RequestItems(u, c)
    BY DEF u
  <2> QED BY <2>1, <1>3, Requests DEF Touches
<1>5. RowsOf(v, c) = RowsOf(u, c)
  <2>1. LeftOf(c) \cap ({c} \cup right) = {}
    BY ColumnOrder DEF ColumnNames, Behind
  <2> QED BY <2>1, <1>3, RowsUntouched
<1>6. Touches(v, w, {c} \cup right)
  BY <1>3, <1>4 DEF Touches
<1>7. v.selected[c] = {} => Touches(v, w, {c})
  BY <1>3, <1>4 DEF Touches
<1>8. v.selected[c] # {} => Touches(report, w, {c})
  BY <1>2, <1>4
<1> QED BY <1>3, <1>4, <1>5, <1>6, <1>7, <1>8

(* A column follows: it is saved, and reloads.                             *)
LEMMA OneFollows ==
  ASSUME NEW v, OnView(v), NEW c \in ColumnNames, NEW right, right \subseteq ColumnNames \ {c},
         NEW w, LET u == SaveSelection(v, c) IN
                /\ Touches(u, w, {c} \cup right)
                /\ w.selected[c] = LoadSelection(c, u.saved[c], RowsOf(u, c))
  PROVE  Touches(v, w, {c} \cup right) /\ w.selected[c] = LoadedAgain(v, c)
<1> DEFINE u == SaveSelection(v, c)
<1>1. /\ Touches(v, u, {c}) /\ u.selected = v.selected
      /\ u.saved[c] = SaveSelectionInformation(c, v.selected[c])
  BY Saves
<1>2. Touches(u, w, {c} \cup right) /\ w.selected[c] = LoadSelection(c, u.saved[c], RowsOf(u, c))
  OBVIOUS
<1> HIDE DEF u
<1>3. RowsOf(u, c) = RowsOf(v, c)
  BY <1>1, RowsByLeft DEF Touches
<1>4. Touches(v, w, {c} \cup right)
  BY <1>1, <1>2 DEF Touches
<1> QED BY <1>1, <1>2, <1>3, <1>4 DEF LoadedAgain

LEMMA SongReloads ==
  ASSUME NEW v, OnView(v)
  PROVE  LET w == ReloadSong(v) IN
         /\ Touches(v, w, {"song"}) /\ Fresh(w, "song")
         /\ w.selected["song"] = LoadSelection("song", v.saved["song"], RowsOf(v, "song"))
<1> DEFINE u == Emptied(v, "song")
           w == RequestItems(u, "song")
<1>1. Touches(v, u, {"song"}) /\ u.saved = v.saved
  BY ColumnOrder, Empties
<1> HIDE DEF u
<1>2. /\ Touches(u, w, {"song"}) /\ Fresh(w, "song")
      /\ w.selected["song"] = LoadSelection("song", u.saved["song"], RowsOf(u, "song"))
  <2>1. OnView(u) /\ "song" \in ColumnNames
    BY <1>1, ColumnOrder DEF Touches
  <2> QED BY <2>1, Requests
<1> HIDE DEF w
<1>3. RowsOf(v, "song") = RowsOf(u, "song")
  BY <1>1, ColumnOrder, RowsUntouched
<1>4. w = ReloadSong(v)
  BY DEF w, u, ReloadSong
<1>5. Touches(v, w, {"song"})
  BY <1>1, <1>2 DEF Touches
<1> QED BY <1>1, <1>2, <1>3, <1>4, <1>5

LEMMA SongIsFollowing ==
  ASSUME NEW v, OnView(v)
  PROVE  LET w == SongFollows(v) IN
         /\ Touches(v, w, {"song"}) /\ Fresh(w, "song")
         /\ w.selected["song"] = LoadedAgain(v, "song")
<1> DEFINE u == SaveSelection(v, "song")
           w == ReloadSong(u)
<1>1. OnView(u)
  BY ColumnOrder, Saves DEF Touches
<1>2. /\ Touches(u, w, {"song"}) /\ Fresh(w, "song")
      /\ w.selected["song"] = LoadSelection("song", u.saved["song"], RowsOf(u, "song"))
  BY <1>1, SongReloads
<1> HIDE DEF w
<1>3. Touches(v, w, {"song"} \cup {}) /\ w.selected["song"] = LoadedAgain(v, "song")
  <2>1. Touches(u, w, {"song"} \cup {})
    BY <1>2
  <2> QED BY <2>1, <1>2, ColumnOrder, OneFollows
<1>4. w = SongFollows(v)
  BY DEF w, SongFollows
<1> QED BY <1>2, <1>3, <1>4

LEMMA AlbumReloads ==
  ASSUME NEW v, OnView(v)
  PROVE  LET w == ReloadAlbum(v) IN
         /\ Touches(v, w, {"album", "song"}) /\ Fresh(w, "album")
         /\ w.selected["album"] = LoadSelection("album", v.saved["album"], RowsOf(v, "album"))
         /\ v.selected["album"] = {} => Touches(v, w, {"album"})
         /\ v.selected["album"] # {} => Touches(SongFollows(Emptied(v, "album")), w, {"album"})
<1> DEFINE w == ReloadAlbum(v)
           report == SongFollows(Emptied(v, "album"))
<1>1. Touches(Emptied(v, "album"), report, {"song"})
  <2>1. "album" \in ColumnNames
    BY ColumnOrder
  <2>2. OnView(Emptied(v, "album"))
    BY <2>1, Empties DEF Touches
  <2> QED BY <2>2, SongIsFollowing
<1>2. w = RequestItems(UpdateLibraryDataSource(v, "album", report), "album")
  BY DEF ReloadAlbum
<1> DEFINE right == {"song"}
<1>3. {"album"} \cup right = {"album", "song"}
      /\ Behind("album", right) /\ "album" \in ColumnNames
  BY ColumnOrder DEF Behind
<1> HIDE DEF report, right, w
<1>4. /\ Touches(v, w, {"album"} \cup right) /\ Fresh(w, "album")
      /\ w.selected["album"] = LoadSelection("album", v.saved["album"], RowsOf(v, "album"))
      /\ v.selected["album"] = {} => Touches(v, w, {"album"})
      /\ v.selected["album"] # {} => Touches(report, w, {"album"})
  <2>1. OnView(v) /\ Touches(Emptied(v, "album"), report, right)
    BY <1>1 DEF right
  <2> QED BY <2>1, <1>2, <1>3, OneReloads
<1> QED BY <1>3, <1>4 DEF report, w

LEMMA AlbumIsFollowing ==
  ASSUME NEW v, OnView(v)
  PROVE  LET w == AlbumFollows(v) IN
         /\ Touches(v, w, {"album", "song"}) /\ Fresh(w, "album") /\ Fresh(w, "song")
         /\ w.selected["album"] = LoadedAgain(v, "album")
<1> DEFINE t == SaveSelection(v, "album")
           u == ReloadAlbum(t)
           w == SongFollows(u)
<1>1. OnView(t)
  BY ColumnOrder, Saves DEF Touches
<1>2. /\ Touches(t, u, {"album"} \cup {"song"}) /\ Fresh(u, "album")
      /\ u.selected["album"] = LoadSelection("album", t.saved["album"], RowsOf(t, "album"))
  <2>1. {"album"} \cup {"song"} = {"album", "song"}
    OBVIOUS
  <2> QED BY <2>1, <1>1, AlbumReloads
<1> HIDE DEF u
<1>3. Touches(v, u, {"album"} \cup {"song"}) /\ u.selected["album"] = LoadedAgain(v, "album")
  <2>1. {"song"} \subseteq ColumnNames \ {"album"}
    BY ColumnOrder
  <2> QED BY <2>1, <1>2, ColumnOrder, OneFollows
<1>4. Touches(u, w, {"song"}) /\ Fresh(w, "song")
  BY <1>3, SongIsFollowing DEF Touches
<1> HIDE DEF w
<1>5. w.selected["album"] = u.selected["album"] /\ Fresh(w, "album")
  <2>1. "album" \in ColumnNames \ {"song"} /\ LeftOf("album") \cap {"song"} = {}
    BY ColumnOrder
  <2>2. Fresh(w, "album")
    BY <1>2, <1>4, <2>1, StaysFresh
  <2> QED BY <1>4, <2>1, <2>2 DEF Touches
<1>6. Touches(v, w, {"album", "song"})
  BY <1>3, <1>4 DEF Touches
<1>7. w = AlbumFollows(v)
  BY DEF w, u, t, AlbumFollows
<1> QED BY <1>3, <1>4, <1>5, <1>6, <1>7

LEMMA ArtistReloads ==
  ASSUME NEW v, OnView(v)
  PROVE  LET w == ReloadArtist(v) IN
         /\ Touches(v, w, {"artist", "album", "song"}) /\ Fresh(w, "artist")
         /\ w.selected["artist"] = LoadSelection("artist", v.saved["artist"], RowsOf(v, "artist"))
         /\ v.selected["artist"] = {} => Touches(v, w, {"artist"})
         /\ v.selected["artist"] # {} => Touches(AlbumFollows(Emptied(v, "artist")), w, {"artist"})
<1> DEFINE w == ReloadArtist(v)
           report == AlbumFollows(Emptied(v, "artist"))
<1>1. Touches(Emptied(v, "artist"), report, {"album", "song"})
  <2>1. "artist" \in ColumnNames
    BY ColumnOrder
  <2>2. OnView(Emptied(v, "artist"))
    BY <2>1, Empties DEF Touches
  <2> QED BY <2>2, AlbumIsFollowing
<1>2. w = RequestItems(UpdateLibraryDataSource(v, "artist", report), "artist")
  BY DEF ReloadArtist
<1> DEFINE right == {"album", "song"}
<1>3. {"artist"} \cup right = {"artist", "album", "song"}
      /\ Behind("artist", right) /\ "artist" \in ColumnNames
  BY ColumnOrder DEF Behind
<1> HIDE DEF report, right, w
<1>4. /\ Touches(v, w, {"artist"} \cup right)
      /\ Fresh(w, "artist")
      /\ w.selected["artist"]
           = LoadSelection("artist", v.saved["artist"], RowsOf(v, "artist"))
      /\ v.selected["artist"] = {} => Touches(v, w, {"artist"})
      /\ v.selected["artist"] # {} => Touches(report, w, {"artist"})
  <2>1. OnView(v) /\ Touches(Emptied(v, "artist"), report, right)
    BY <1>1 DEF right
  <2> QED BY <2>1, <1>2, <1>3, OneReloads
<1> QED BY <1>3, <1>4 DEF report, w

LEMMA ArtistIsFollowing ==
  ASSUME NEW v, OnView(v)
  PROVE  LET w == ArtistFollows(v) IN
         /\ Touches(v, w, {"artist", "album", "song"})
         /\ Fresh(w, "artist") /\ Fresh(w, "album") /\ Fresh(w, "song")
         /\ w.selected["artist"] = LoadedAgain(v, "artist")
<1> DEFINE t == SaveSelection(v, "artist")
           u == ReloadArtist(t)
           w == AlbumFollows(u)
<1>1. OnView(t)
  BY ColumnOrder, Saves DEF Touches
<1>2. /\ Touches(t, u, {"artist"} \cup {"album", "song"}) /\ Fresh(u, "artist")
      /\ u.selected["artist"] = LoadSelection("artist", t.saved["artist"], RowsOf(t, "artist"))
  <2>1. {"artist"} \cup {"album", "song"} = {"artist", "album", "song"}
    OBVIOUS
  <2> QED BY <2>1, <1>1, ArtistReloads
<1> HIDE DEF u
<1>3. /\ Touches(v, u, {"artist"} \cup {"album", "song"})
      /\ u.selected["artist"] = LoadedAgain(v, "artist")
  <2>1. {"album", "song"} \subseteq ColumnNames \ {"artist"}
    BY ColumnOrder
  <2> QED BY <2>1, <1>2, ColumnOrder, OneFollows
<1>4. Touches(u, w, {"album", "song"}) /\ Fresh(w, "album") /\ Fresh(w, "song")
  BY <1>3, AlbumIsFollowing DEF Touches
<1> HIDE DEF w
<1>5. w.selected["artist"] = u.selected["artist"] /\ Fresh(w, "artist")
  <2>1. "artist" \in ColumnNames \ {"album", "song"} /\ LeftOf("artist") \cap {"album", "song"} = {}
    BY ColumnOrder
  <2>2. Fresh(w, "artist")
    BY <1>2, <1>4, <2>1, StaysFresh
  <2> QED BY <1>4, <2>1, <2>2 DEF Touches
<1>6. Touches(v, w, {"artist", "album", "song"})
  BY <1>3, <1>4 DEF Touches
<1>7. w = ArtistFollows(v)
  BY DEF w, u, t, ArtistFollows
<1> QED BY <1>3, <1>4, <1>5, <1>6, <1>7

LEMMA GenreReloads ==
  ASSUME NEW v, OnView(v)
  PROVE  LET w == ReloadGenre(v) IN
         /\ Touches(v, w, ColumnNames) /\ Fresh(w, "genre")
         /\ w.selected["genre"] = LoadSelection("genre", v.saved["genre"], RowsOf(v, "genre"))
         /\ v.selected["genre"] = {} => Touches(v, w, {"genre"})
<1> DEFINE w == ReloadGenre(v)
           report == ArtistFollows(Emptied(v, "genre"))
           right == {"artist", "album", "song"}
<1>1. Touches(Emptied(v, "genre"), report, right)
  <2>1. "genre" \in ColumnNames
    BY ColumnOrder
  <2>2. OnView(Emptied(v, "genre"))
    BY <2>1, Empties DEF Touches
  <2> QED BY <2>2, ArtistIsFollowing
<1>2. w = RequestItems(UpdateLibraryDataSource(v, "genre", report), "genre")
  BY DEF ReloadGenre
<1>3. {"genre"} \cup right = ColumnNames
      /\ Behind("genre", right) /\ "genre" \in ColumnNames
  BY ColumnOrder DEF Behind, ColumnNames
<1> HIDE DEF report, right, w
<1>4. /\ Touches(v, w, {"genre"} \cup right)
      /\ Fresh(w, "genre")
      /\ w.selected["genre"]
           = LoadSelection("genre", v.saved["genre"], RowsOf(v, "genre"))
      /\ v.selected["genre"] = {} => Touches(v, w, {"genre"})
  <2>1. OnView(v) /\ Touches(Emptied(v, "genre"), report, right)
    BY <1>1 DEF right
  <2> QED BY <2>1, <1>2, <1>3, OneReloads
<1> QED BY <1>3, <1>4 DEF w

(* Columns that reload one after the other show all what they have to.     *)
LEMMA AllReload ==
  ASSUME NEW v, OnView(v)
  PROVE  LET w == ReloadColumns(v) IN
         Touches(v, w, ColumnNames) /\ \A c \in ColumnNames : Fresh(w, c)
<1> DEFINE s == ReloadGenre(v)
           t == ReloadArtist(s)
           u == ReloadAlbum(t)
           w == ReloadSong(u)
<1>1. Touches(v, s, ColumnNames) /\ Fresh(s, "genre")
  BY GenreReloads
<1> HIDE DEF s
<1>2. Touches(s, t, {"artist", "album", "song"}) /\ Fresh(t, "artist")
  BY <1>1, ArtistReloads DEF Touches
<1> HIDE DEF t
<1>3. Touches(t, u, {"album", "song"}) /\ Fresh(u, "album")
  BY <1>2, AlbumReloads DEF Touches
<1> HIDE DEF u
<1>4. Touches(u, w, {"song"}) /\ Fresh(w, "song")
  BY <1>3, SongReloads DEF Touches
<1> HIDE DEF w
<1>5. Fresh(t, "genre")
  BY <1>1, <1>2, ColumnOrder, StaysFresh
<1>6. Fresh(u, "genre") /\ Fresh(u, "artist")
  BY <1>2, <1>3, <1>5, ColumnOrder, StaysFresh
<1>7. Fresh(w, "genre") /\ Fresh(w, "artist") /\ Fresh(w, "album")
  BY <1>3, <1>4, <1>6, ColumnOrder, StaysFresh
<1>8. Touches(v, w, ColumnNames)
  BY <1>1, <1>2, <1>3, <1>4 DEF Touches
<1>9. w = ReloadColumns(v)
  BY DEF w, u, t, s, ReloadColumns
<1> QED BY <1>4, <1>7, <1>8, <1>9 DEF ColumnNames

-----------------------------------------------------------------------------
(* LibraryBrowser: types.                                                  *)

GoodLibrary(lib) ==
  /\ lib.gen \in 0..MaxGen
  /\ lib.songs \in {{}} \cup Catalogs
  /\ lib.compilation \subseteq lib.songs

\* Of rows of the present library, the songs are in it.
GoodView(v) ==
  /\ OnView(v) /\ GoodLibrary(v.library)
  /\ \A c \in ColumnNames : v.selected[c] \subseteq v.items[c]
  /\ Compilation \notin v.items["genre"] /\ Compilation \notin v.items["album"]
  /\ \A r \in v.items["song"] : r.gen \in Nat /\ r.gen <= v.library.gen
                                /\ (r.gen = v.library.gen => r.song \in v.library.songs)

\* What the columns show, of the library that there is and what is searched for
Present == View(library, search)

\* What is said of the rest
GoodRest ==
  /\ search \in LibrarySearches \cup {[fields |-> {"album", "title", "artist"}, tokens |-> {}]}
  /\ enabled \in BOOLEAN /\ connected \in BOOLEAN
  /\ import = None \/ import \subseteq {"written", "cleared"}
  /\ import # None /\ "written" \notin import => library.gen < MaxGen

BrowserInv ==
  /\ library = [gen |-> library.gen, songs |-> library.songs, compilation |-> library.compilation]
  /\ GoodLibrary(library)
  /\ GoodView(Present)
  /\ GoodRest

(* The songs of a library are finitely many, of different files.           *)
LEMMA LibraryIsListing ==
  ASSUME NEW lib, GoodLibrary(lib)
  PROVE  Listing(lib.songs)
<1>1. CASE lib.songs = {}
  BY <1>1, FS_EmptySet DEF Listing
<1>2. CASE lib.songs \in Catalogs
  BY <1>2, BrowserAssumption DEF Listing
<1> QED BY <1>1, <1>2 DEF GoodLibrary

(* No row of a genre, an artist or an album is the entry of compilations.  *)
LEMMA SongsAreNoEntry ==
  ASSUME NEW lib, GoodLibrary(lib), NEW s \in lib.songs, NEW c \in {"genre", "artist", "album"}
  PROVE  Compilation # <<lib.gen, s[c]>>
BY BrowserAssumption DEF GoodLibrary

(* The rows of the columns are of the library.                             *)
LEMMA RowsOfLibrary ==
  ASSUME NEW v, GoodLibrary(v.library)
  PROVE  /\ Compilation \notin RowsOf(v, "genre") /\ Compilation \notin RowsOf(v, "album")
         /\ \A r \in RowsOf(v, "song") : /\ r.gen = v.library.gen /\ r.song \in v.library.songs
                                       /\ r # Compilation
<1>1. ASSUME NEW filters, NEW c \in {"genre", "album"}
      PROVE  Compilation \notin RequestRows(v.library, c, filters)
  <2>1. \E songs \in SUBSET v.library.songs :
          RequestRows(v.library, c, filters) = {<<v.library.gen, s[c]>> : s \in songs}
    BY DEF RequestRows
  <2> QED BY <2>1, SongsAreNoEntry
<1>2. ASSUME NEW filters, NEW r \in RequestRows(v.library, "song", filters)
      PROVE  r.gen = v.library.gen /\ r.song \in v.library.songs /\ r # Compilation
  <2>1. PICK s \in v.library.songs :
          r = [gen |-> v.library.gen, song |-> s, isCompilation |-> s \in v.library.compilation]
    BY <1>2 DEF RequestRows
  <2>2. \E songs \in Catalogs : s \in songs
    BY DEF GoodLibrary
  <2>3. v.library.gen \in 0..MaxGen /\ (s \in v.library.compilation) \in BOOLEAN
    BY DEF GoodLibrary
  <2>4. r # Compilation
    BY <2>1, <2>2, <2>3, BrowserAssumption
  <2> QED BY <2>1, <2>4
<1> QED BY <1>1, <1>2 DEF RowsOf

(* What is selected again is in the column.                                *)
LEMMA LoadedInRows ==
  ASSUME NEW c, NEW saved, NEW rows
  PROVE  LoadSelection(c, saved, rows) \subseteq rows
BY DEF LoadSelection, FirstRow

(* A view stays good if one column changes to rows that it had or reloads. *)
LEMMA OneChanges ==
  ASSUME NEW v, GoodView(v), NEW c \in ColumnNames, NEW w, Touches(v, w, {c}),
         w.selected[c] \subseteq w.items[c], w.items[c] \subseteq v.items[c] \cup RowsOf(v, c)
  PROVE  GoodView(w)
<1>1. OnView(w) /\ GoodLibrary(w.library) /\ GoodLibrary(v.library)
  BY DEF GoodView, Touches
<1>2. \A d \in ColumnNames : w.selected[d] \subseteq w.items[d]
  BY DEF GoodView, Touches
<1>3. \A d \in ColumnNames : w.items[d] \subseteq v.items[d] \cup RowsOf(v, d)
  BY DEF Touches
<1>4. ASSUME NEW d \in {"genre", "album"} PROVE Compilation \notin w.items[d]
  BY <1>1, <1>3, RowsOfLibrary DEF GoodView, ColumnNames
<1>5. ASSUME NEW r \in w.items["song"]
      PROVE  r.gen \in Nat /\ r.gen <= w.library.gen
             /\ (r.gen = w.library.gen => r.song \in w.library.songs)
  <2>1. CASE r \in v.items["song"]
    BY <2>1 DEF GoodView, Touches
  <2>2. CASE r \in RowsOf(v, "song")
    <3>1. r.gen = v.library.gen /\ r.song \in v.library.songs /\ v.library.gen \in 0..MaxGen
      BY <2>2, <1>1, RowsOfLibrary DEF GoodLibrary
    <3> QED BY <3>1, BrowserAssumption DEF Touches
  <2> QED BY <2>1, <2>2, <1>3, <1>5 DEF ColumnNames
<1> QED BY <1>1, <1>2, <1>4, <1>5 DEF GoodView

LEMMA StepsAreGood ==
  ASSUME NEW v, GoodView(v), NEW c \in ColumnNames
  PROVE  /\ GoodView(SaveSelection(v, c)) /\ GoodView(Emptied(v, c))
         /\ GoodView(RequestItems(v, c))
         /\ \A rows \in SUBSET v.items[c] : GoodView(SetSelection(v, c, rows))
<1>1. OnView(v) /\ v.selected[c] \subseteq v.items[c]
  BY DEF GoodView
<1>2. GoodView(SaveSelection(v, c))
  BY <1>1, Saves, OneChanges
<1>3. GoodView(Emptied(v, c))
  BY <1>1, Empties, OneChanges
<1>4. GoodView(RequestItems(v, c))
  <2> DEFINE w == RequestItems(v, c)
  <2>1. /\ Touches(v, w, {c}) /\ w.items[c] = RowsOf(v, c)
        /\ w.selected[c] = LoadSelection(c, v.saved[c], RowsOf(v, c))
    BY <1>1, Requests
  <2> HIDE DEF w
  <2>2. w.selected[c] \subseteq w.items[c]
    BY <2>1, LoadedInRows
  <2>3. GoodView(w)
    BY <2>1, <2>2, OneChanges
  <2> QED BY <2>3 DEF w
<1>5. ASSUME NEW rows \in SUBSET v.items[c] PROVE GoodView(SetSelection(v, c, rows))
  BY <1>1, SelectionIsSet, OneChanges
<1> QED BY <1>2, <1>3, <1>4, <1>5

(* Reloading keeps a view good.                                            *)
LEMMA ReloadsAreGood ==
  ASSUME NEW v, GoodView(v)
  PROVE  /\ GoodView(ReloadColumns(v))
         /\ \A c \in ColumnNames : GoodView(SelectionDidChange(v, c))
<1>1. ASSUME NEW u, GoodView(u) PROVE GoodView(ReloadSong(u)) /\ GoodView(SongFollows(u))
  BY <1>1, ColumnOrder, StepsAreGood DEF ReloadSong, SongFollows
<1>2. ASSUME NEW u, GoodView(u), NEW c \in ColumnNames, NEW report,
             GoodView(Emptied(u, c)) => GoodView(report)
      PROVE  GoodView(RequestItems(UpdateLibraryDataSource(u, c, report), c))
  BY <1>2, StepsAreGood DEF UpdateLibraryDataSource
<1>3. ASSUME NEW u, GoodView(u) PROVE GoodView(ReloadAlbum(u))
  BY <1>1, <1>2, <1>3, ColumnOrder DEF ReloadAlbum
<1>4. ASSUME NEW u, GoodView(u) PROVE GoodView(AlbumFollows(u))
  BY <1>1, <1>3, <1>4, ColumnOrder, StepsAreGood DEF AlbumFollows
<1>5. ASSUME NEW u, GoodView(u) PROVE GoodView(ReloadArtist(u))
  BY <1>2, <1>4, <1>5, ColumnOrder DEF ReloadArtist
<1>6. ASSUME NEW u, GoodView(u) PROVE GoodView(ArtistFollows(u))
  BY <1>4, <1>5, <1>6, ColumnOrder, StepsAreGood DEF ArtistFollows
<1>7. ASSUME NEW u, GoodView(u) PROVE GoodView(ReloadGenre(u))
  BY <1>2, <1>6, <1>7, ColumnOrder DEF ReloadGenre
<1>8. GoodView(ReloadColumns(v))
  BY <1>1, <1>3, <1>5, <1>7 DEF ReloadColumns
<1>9. \A c \in ColumnNames : GoodView(SelectionDidChange(v, c))
  BY <1>1, <1>4, <1>6 DEF SelectionDidChange, ColumnNames
<1> QED BY <1>8, <1>9

(* The views of the windows.                                               *)
LEMMA ViewIs ==
  ASSUME NEW lib, NEW for
  PROVE  LET v == View(lib, for) IN
         /\ v.items = items /\ v.selected = selected /\ v.library = lib /\ v.search = for
         /\ OnColumns(items) /\ OnColumns(selected) => OnView(v)
<1>1. OnColumns([c \in ColumnNames |-> NothingSaved])
  BY DEF OnColumns
<1> QED BY <1>1 DEF View, OnView

LEMMA ViewIsGood ==
  ASSUME NEW lib, NEW for, GoodLibrary(lib), BrowserInv,
         lib.gen = library.gen, lib.songs = library.songs
  PROVE  GoodView(View(lib, for))
<1> DEFINE v == View(lib, for)
<1>1. v.items = items /\ v.selected = selected /\ v.library = lib
  BY ViewIs
<1>2. Present.items = items /\ Present.selected = selected /\ Present.library = library
  BY DEF Present, View
<1>3. OnView(v)
  BY <1>2, ViewIs DEF BrowserInv, GoodView, OnView
<1> HIDE DEF v
<1>4. GoodView(v)
  BY <1>1, <1>2, <1>3 DEF BrowserInv, GoodView
<1> QED BY <1>4 DEF v

LEMMA ShowIsGood ==
  ASSUME NEW v, GoodView(v), Show(v), v.library = library'
  PROVE  GoodView(Present')
<1>1. /\ Present'.items = v.items /\ Present'.selected = v.selected
      /\ Present'.library = library' /\ OnView(Present')
  <2>1. /\ Present'.items = items' /\ Present'.selected = selected'
        /\ Present'.library = library'
    BY DEF Present, View
  <2>2. OnColumns(items') /\ OnColumns(selected')
    BY DEF Show, GoodView, OnView
  <2>3. OnColumns([c \in ColumnNames |-> NothingSaved])
    BY DEF OnColumns
  <2> QED BY <2>1, <2>2, <2>3 DEF Present, View, OnView, Show
<1> QED BY <1>1 DEF GoodView

(* Reloading all keeps it good.                                            *)
LEMMA ReloadAllIsGood ==
  ASSUME BrowserInv, GoodLibrary(library'), ReloadAll(library'),
         library'.gen = library.gen /\ library'.songs = library.songs
  PROVE  GoodView(Present')
<1> DEFINE v == View(library', search)
<1>1. GoodView(v)
  BY ViewIsGood
<1>2. v.library = library'
  BY DEF View
<1> HIDE DEF v
<1>3. OnView(v) /\ GoodView(ReloadColumns(v))
  BY <1>1, ReloadsAreGood DEF GoodView
<1>4. ReloadColumns(v).library = library'
  BY <1>2, <1>3, AllReload DEF Touches
<1> QED BY <1>3, <1>4, ShowIsGood DEF ReloadAll, v

(* An empty view is good.                                                  *)
LEMMA ClearedView ==
  ASSUME GoodLibrary(library'), ClearAndDisableViews
  PROVE  GoodView(Present')
<1>1. Present'.items = NoRows /\ Present'.selected = NoRows /\ Present'.library = library'
  BY DEF ClearAndDisableViews, Present, View
<1>2. \A c \in ColumnNames : NoRows[c] = {}
  BY DEF NoRows
<1>3. OnColumns(NoRows) /\ OnColumns([c \in ColumnNames |-> NothingSaved])
  BY DEF OnColumns, NoRows
<1>4. OnView(Present')
  BY <1>1, <1>3 DEF Present, View, OnView
<1> QED BY <1>1, <1>2, <1>4 DEF GoodView, ColumnNames

(* A change of the marks leaves the rest of a library good.           *)
LEMMA MarksChange ==
  ASSUME NEW lib, GoodLibrary(lib),
         lib = [gen |-> lib.gen, songs |-> lib.songs, compilation |-> lib.compilation],
         NEW new, NEW marks \in SUBSET lib.songs, new = [lib EXCEPT !.compilation = marks]
  PROVE  /\ new.gen = lib.gen /\ new.songs = lib.songs /\ new.compilation = marks
         /\ new = [gen |-> new.gen, songs |-> new.songs, compilation |-> new.compilation]
         /\ GoodLibrary(new)
<1>1. new.gen = lib.gen /\ new.songs = lib.songs /\ new.compilation = marks
  OBVIOUS
<1>2. new = [gen |-> lib.gen, songs |-> lib.songs, compilation |-> marks]
  OBVIOUS
<1>3. GoodLibrary(new)
  BY <1>1 DEF GoodLibrary
<1> QED BY <1>1, <1>2, <1>3

(* What the actions on the marks do to the library.                        *)
LEMMA ToggleMarks ==
  ASSUME BrowserInv, SetToggleIsPartOfCompilation
  PROVE  LET chosen == SongsOfRows(library, selected["song"]) IN
         \E marks \in {library.compilation \cup chosen, library.compilation \ chosen} :
           marks \in SUBSET library.songs /\ library' = [library EXCEPT !.compilation = marks]
<1> DEFINE chosen == SongsOfRows(library, selected["song"])
           marks == IF MenuItemState(selected["song"]) = "on" THEN library.compilation \ chosen
                    ELSE library.compilation \cup chosen
<1>1. chosen \subseteq library.songs /\ library.compilation \subseteq library.songs
  BY DEF SongsOfRows, BrowserInv, GoodLibrary
<1>2. library' = [library EXCEPT !.compilation = marks]
  BY DEF SetToggleIsPartOfCompilation
<1> HIDE DEF chosen
<1>3. marks \in {library.compilation \cup chosen, library.compilation \ chosen}
      /\ marks \in SUBSET library.songs
  BY <1>1
<1> QED BY <1>2, <1>3 DEF chosen

(* The detector only adds marks.                                           *)
LEMMA DetectMarks ==
  ASSUME BrowserInv, DetectCompilations
  PROVE  \E marks \in SUBSET library.songs :
           /\ library' = [library EXCEPT !.compilation = marks]
           /\ marks = library.compilation \cup DataSourceResults(library.songs)
<1>1. DataSourceResults(library.songs) \subseteq library.songs
  BY LibraryIsListing, FoundInLibrary DEF BrowserInv
<1>2. library.compilation \subseteq library.songs
  BY DEF BrowserInv, GoodLibrary
<1> QED BY <1>1, <1>2 DEF DetectCompilations

(* What an import writes is a library, whose rows nobody has yet.          *)
LEMMA ImportWrites ==
  ASSUME BrowserInv, NEW songs \in Catalogs, WriteImport(songs)
  PROVE  /\ library' = [gen |-> library'.gen, songs |-> library'.songs,
                        compilation |-> library'.compilation]
         /\ library'.gen = library.gen + 1 /\ library.gen \in Nat
         /\ GoodLibrary(library') /\ GoodView(Present')
<1>1. /\ library'.gen = library.gen + 1 /\ library'.songs = songs
      /\ library'.compilation = library.compilation \cap songs
      /\ library' = [gen |-> library.gen + 1, songs |-> songs,
                     compilation |-> library.compilation \cap songs]
  BY DEF WriteImport
<1>2. library.gen \in 0..MaxGen /\ library.gen < MaxGen /\ MaxGen \in Nat
  BY BrowserAssumption DEF BrowserInv, GoodRest, GoodLibrary, WriteImport
<1>3. GoodLibrary(library')
  BY <1>1, <1>2 DEF GoodLibrary
<1>4. /\ Present'.items = Present.items /\ Present'.selected = Present.selected
      /\ Present.library = library /\ Present'.library = library' /\ OnView(Present')
  <2>1. OnColumns(items') /\ OnColumns(selected')
    BY ViewIs DEF WriteImport, BrowserInv, GoodView, OnView, Present
  <2>2. OnColumns([c \in ColumnNames |-> NothingSaved])
    BY DEF OnColumns
  <2> QED BY <2>1, <2>2 DEF WriteImport, Present, View, OnView
<1>5. \A r \in Present.items["song"] : r.gen \in Nat /\ r.gen <= library.gen
  BY <1>4 DEF BrowserInv, GoodView
<1>6. \A r \in Present.items["song"] : r.gen <= library'.gen /\ r.gen # library'.gen
  BY <1>1, <1>2, <1>5
<1>7. GoodView(Present')
  BY <1>3, <1>4, <1>5, <1>6 DEF BrowserInv, GoodView
<1> QED BY <1>1, <1>2, <1>3, <1>7

\* A selection as the user makes one
Selects(c, rows) == Cardinality(rows) <= MaxSelected[c] /\ Select(c, rows)

(* What the user selects is shown, and what follows it.                    *)
LEMMA SelectShows ==
  ASSUME BrowserInv, NEW c \in ColumnNames, NEW rows, Select(c, rows)
  PROVE  LET v == SetSelection(Present, c, rows)
             w == SelectionDidChange(v, c)
             right == {d \in ColumnNames : c \in LeftOf(d)} IN
         /\ Touches(Present, v, {c}) /\ v.items = items /\ v.selected[c] = rows
         /\ Touches(v, w, right) /\ \A d \in right : Fresh(w, d)
         /\ Show(w) /\ w.library = library' /\ w.search = search'
         /\ rows \subseteq items[c] => GoodView(w)
<1> DEFINE v == SetSelection(Present, c, rows)
           w == SelectionDidChange(v, c)
           right == {d \in ColumnNames : c \in LeftOf(d)}
<1>1. /\ GoodView(Present) /\ OnView(Present) /\ Present.items = items
      /\ Present.library = library /\ Present.search = search
  BY ViewIs DEF BrowserInv, GoodView, Present
<1>2. Touches(Present, v, {c}) /\ v.items = items /\ v.selected[c] = rows
  BY <1>1, SelectionIsSet
<1>3. Show(w) /\ UNCHANGED <<library, search>>
  BY DEF Select, Present
<1>4. rows \subseteq items[c] => GoodView(w)
  BY <1>1, StepsAreGood, ReloadsAreGood
<1> HIDE DEF v
<1>5. Touches(v, w, right) /\ \A d \in right : Fresh(w, d)
  <2>1. OnView(v)
    BY <1>2 DEF Touches
  <2>2. CASE c = "genre"
    <3>1. right = {"artist", "album", "song"} /\ w = ArtistFollows(v)
      BY <2>2, ColumnOrder DEF ColumnNames, SelectionDidChange
    <3> QED BY <2>1, <3>1, ArtistIsFollowing
  <2>3. CASE c = "artist"
    <3>1. right = {"album", "song"} /\ w = AlbumFollows(v)
      BY <2>3, ColumnOrder DEF ColumnNames, SelectionDidChange
    <3> QED BY <2>1, <3>1, AlbumIsFollowing
  <2>4. CASE c = "album"
    <3>1. right = {"song"} /\ w = SongFollows(v)
      BY <2>4, ColumnOrder DEF ColumnNames, SelectionDidChange
    <3> QED BY <2>1, <3>1, SongIsFollowing
  <2>5. CASE c = "song"
    <3>1. right = {} /\ w = v
      BY <2>5, ColumnOrder DEF ColumnNames, SelectionDidChange
    <3> QED BY <2>1, <3>1 DEF Touches
  <2> QED BY <2>2, <2>3, <2>4, <2>5 DEF ColumnNames
<1> HIDE DEF w, right
<1>6. w.library = library' /\ w.search = search'
  BY <1>1, <1>2, <1>3, <1>5 DEF Touches
<1> QED BY <1>2, <1>3, <1>4, <1>5, <1>6 DEF v, w, right

\* What a search reloads: with all selections saved
SearchedView(for) ==
  [View(library, for) EXCEPT
     !.saved = [c \in ColumnNames |-> SaveSelectionInformation(c, selected[c])]]

LEMMA SearchedViewIs ==
  ASSUME BrowserInv, NEW for
  PROVE  LET v == SearchedView(for) IN
         /\ GoodView(v) /\ v.library = library /\ v.search = for
         /\ v.items = items /\ v.selected = selected
         /\ \A c \in ColumnNames : v.saved[c] = SaveSelectionInformation(c, selected[c])
<1> DEFINE saved == [c \in ColumnNames |-> SaveSelectionInformation(c, selected[c])]
           v == SearchedView(for)
<1>1. v = [items |-> items, selected |-> selected, saved |-> saved,
           library |-> library, search |-> for]
  BY DEF SearchedView, View
<1>2. OnColumns(saved) /\ \A c \in ColumnNames : saved[c] = SaveSelectionInformation(c, selected[c])
  BY DEF OnColumns
<1>3. Present.items = items /\ Present.selected = selected /\ Present.library = library
  BY DEF Present, View
<1> HIDE DEF saved, v
<1>4. /\ v.items = items /\ v.selected = selected /\ v.saved = saved
      /\ v.library = library /\ v.search = for
  BY <1>1
<1>5. OnView(v)
  BY <1>1, <1>2, <1>3, <1>4 DEF OnView, BrowserInv, GoodView
<1>6. GoodView(v)
  BY <1>3, <1>4, <1>5 DEF BrowserInv, GoodView
<1> QED BY <1>2, <1>4, <1>6 DEF v

LEMMA InitiateShows ==
  ASSUME NEW for, InitiateSearch(for)
  PROVE  Show(ReloadColumns(SearchedView(for)))
BY DEF InitiateSearch, SearchedView

(* Every action keeps the library and its view good.                       *)
LEMMA LibraryStep ==
  ASSUME BrowserInv, BrowserNext
  PROVE  /\ library' = [gen |-> library'.gen, songs |-> library'.songs,
                        compilation |-> library'.compilation]
         /\ GoodLibrary(library') /\ GoodView(Present')
<1> DEFINE Goal == /\ library' = [gen |-> library'.gen, songs |-> library'.songs,
                                  compilation |-> library'.compilation]
                   /\ GoodLibrary(library') /\ GoodView(Present')
<1>1. /\ library = [gen |-> library.gen, songs |-> library.songs,
                    compilation |-> library.compilation]
      /\ GoodLibrary(library) /\ GoodView(Present)
  BY DEF BrowserInv
<1>2. ASSUME library' = library, GoodView(Present') PROVE Goal
  BY <1>1, <1>2
<1>3. ASSUME library' = library, ReloadAll(library) PROVE Goal
  BY <1>1, <1>2, <1>3, ReloadAllIsGood
<1>4. ASSUME library' = library, ClearAndDisableViews PROVE Goal
  BY <1>1, <1>2, <1>4, ClearedView
<1>5. ASSUME UNCHANGED <<library, search, items, selected>> PROVE Goal
  <2>1. Present' = Present
    BY <1>5 DEF Present, View
  <2> QED BY <1>1, <1>2, <1>5, <2>1
<1>6. ASSUME NEW c \in ColumnNames, NEW rows \in SUBSET items[c], Selects(c, rows) PROVE Goal
  <2>1. GoodView(Present') /\ library' = library
    BY <1>6, SelectShows, ShowIsGood DEF Selects, Select
  <2> QED BY <1>2, <2>1
<1>7. ASSUME NEW for \in LibrarySearches, InitiateSearch(for) PROVE Goal
  <2> DEFINE v == SearchedView(for)
             w == ReloadColumns(v)
  <2>1. GoodView(v) /\ v.library = library /\ OnView(v)
    BY SearchedViewIs DEF GoodView
  <2>2. Show(w) /\ library' = library
    BY <1>7, InitiateShows DEF InitiateSearch
  <2> HIDE DEF v
  <2>3. GoodView(w) /\ w.library = library
    BY <2>1, ReloadsAreGood, AllReload DEF Touches
  <2>4. GoodView(Present')
    BY <2>2, <2>3, ShowIsGood
  <2> QED BY <1>2, <2>2, <2>4
<1>8. ASSUME NEW marks \in SUBSET library.songs, ReloadAll(library'),
             library' = [library EXCEPT !.compilation = marks]
      PROVE Goal
  <2>1. /\ GoodLibrary(library') /\ library'.gen = library.gen /\ library'.songs = library.songs
        /\ library' = [gen |-> library'.gen, songs |-> library'.songs,
                       compilation |-> library'.compilation]
    BY <1>1, <1>8, MarksChange
  <2> QED BY <1>8, <2>1, ReloadAllIsGood
<1>9. ASSUME SetToggleIsPartOfCompilation PROVE Goal
  BY <1>8, <1>9, ToggleMarks DEF SetToggleIsPartOfCompilation
<1>10. ASSUME DetectCompilations PROVE Goal
  BY <1>8, <1>10, DetectMarks DEF DetectCompilations
<1>11. ASSUME ClientConnected PROVE Goal
  BY <1>3, <1>5, <1>11 DEF ClientConnected
<1>12. ASSUME ClientDisconnected PROVE Goal
  BY <1>4, <1>12 DEF ClientDisconnected
<1>13. ASSUME ProfileSwitched PROVE Goal
  BY <1>3, <1>13 DEF ProfileSwitched
<1>14. ASSUME BeginImport PROVE Goal
  BY <1>5, <1>14 DEF BeginImport
<1>15. ASSUME NEW songs \in Catalogs, WriteImport(songs) PROVE Goal
  BY <1>15, ImportWrites
<1>16. ASSUME LibraryBeganImporting PROVE Goal
  BY <1>4, <1>16 DEF LibraryBeganImporting
<1>17. ASSUME LibraryFinishedImporting PROVE Goal
  BY <1>3, <1>17 DEF LibraryFinishedImporting
<1> HIDE DEF Goal
<1>18. Goal
  BY <1>6, <1>7, <1>9, <1>10, <1>11, <1>12, <1>13, <1>14, <1>15, <1>16, <1>17
     DEF BrowserNext, Selects
<1> QED BY <1>18 DEF Goal

(* Every action keeps the types of the rest.                               *)
LEMMA RestStep ==
  ASSUME BrowserInv, BrowserNext
  PROVE  GoodRest'
<1>1. GoodRest /\ library.gen \in 0..MaxGen /\ MaxGen \in Nat
  BY BrowserAssumption DEF BrowserInv, GoodLibrary
<1>2. ASSUME UNCHANGED <<search, connected, import>>, library'.gen = library.gen,
             enabled' \in BOOLEAN
      PROVE  GoodRest'
  BY <1>1, <1>2 DEF GoodRest
<1>3. ASSUME NEW c \in ColumnNames, NEW rows \in SUBSET items[c], Selects(c, rows) PROVE GoodRest'
  BY <1>1, <1>2, <1>3 DEF GoodRest, Selects, Select
<1>4. ASSUME NEW for \in LibrarySearches, InitiateSearch(for) PROVE GoodRest'
  BY <1>1, <1>4 DEF GoodRest, InitiateSearch
<1>5. ASSUME SetToggleIsPartOfCompilation PROVE GoodRest'
  <2>1. \E marks : library' = [library EXCEPT !.compilation = marks]
    BY <1>5, ToggleMarks
  <2>2. library'.gen = library.gen
    BY <2>1 DEF BrowserInv
  <2> QED BY <1>1, <1>2, <1>5, <2>2 DEF GoodRest, SetToggleIsPartOfCompilation
<1>6. ASSUME DetectCompilations PROVE GoodRest'
  <2>1. \E marks : library' = [library EXCEPT !.compilation = marks]
    BY <1>6, DetectMarks
  <2>2. library'.gen = library.gen
    BY <2>1 DEF BrowserInv
  <2> QED BY <1>1, <1>2, <1>6, <2>2 DEF GoodRest, DetectCompilations
<1>7. ASSUME ClientConnected PROVE GoodRest'
  BY <1>1, <1>7 DEF GoodRest, ClientConnected
<1>8. ASSUME ClientDisconnected PROVE GoodRest'
  BY <1>1, <1>8 DEF GoodRest, ClientDisconnected, ClearAndDisableViews
<1>9. ASSUME ProfileSwitched PROVE GoodRest'
  BY <1>1, <1>2, <1>9 DEF GoodRest, ProfileSwitched
<1>10. ASSUME BeginImport PROVE GoodRest'
  <2>1. import' = {} /\ import' \subseteq {"written", "cleared"} /\ library.gen < MaxGen
    BY <1>10 DEF BeginImport
  <2> QED BY <1>1, <1>10, <2>1 DEF GoodRest, BeginImport
<1>11. ASSUME NEW songs \in Catalogs, WriteImport(songs) PROVE GoodRest'
  <2>1. import' = import \cup {"written"} /\ import # None
    BY <1>11 DEF WriteImport
  <2>2. import' \subseteq {"written", "cleared"} /\ "written" \in import'
    BY <1>1, <2>1 DEF GoodRest
  <2> QED BY <1>1, <1>11, <2>2 DEF GoodRest, WriteImport
<1>12. ASSUME LibraryBeganImporting PROVE GoodRest'
  <2>1. import' = import \cup {"cleared"} /\ import # None
    BY <1>12 DEF LibraryBeganImporting
  <2>2. import' \subseteq {"written", "cleared"} /\ ("written" \in import' <=> "written" \in import)
    BY <1>1, <2>1 DEF GoodRest
  <2> QED BY <1>1, <1>12, <2>1, <2>2 DEF GoodRest, LibraryBeganImporting, ClearAndDisableViews
<1>13. ASSUME LibraryFinishedImporting PROVE GoodRest'
  BY <1>1, <1>13 DEF GoodRest, LibraryFinishedImporting
<1> QED BY <1>3, <1>4, <1>5, <1>6, <1>7, <1>8, <1>9, <1>10, <1>11, <1>12, <1>13
       DEF BrowserNext, Selects

(* The invariant holds at first, and ever after.                           *)
LEMMA BrowserInitInv == BrowserInit => BrowserInv
<1> SUFFICES ASSUME BrowserInit PROVE BrowserInv
  OBVIOUS
<1>1. /\ library.gen = 0 /\ library.songs \in {{}} \cup Catalogs
      /\ library.compilation \subseteq library.songs
      /\ library = [gen |-> library.gen, songs |-> library.songs,
                    compilation |-> library.compilation]
  <2>1. PICK songs \in {{}} \cup Catalogs : \E marked \in SUBSET songs :
          library = [gen |-> 0, songs |-> songs, compilation |-> marked]
    BY DEF BrowserInit
  <2>2. PICK marked \in SUBSET songs :
          library = [gen |-> 0, songs |-> songs, compilation |-> marked]
    BY <2>1
  <2> QED BY <2>2
<1>2. GoodLibrary(library)
  BY <1>1, BrowserAssumption DEF GoodLibrary
<1>3. /\ Present.items = NoRows /\ Present.selected = NoRows /\ Present.library = library
      /\ items = NoRows /\ selected = NoRows
  BY DEF BrowserInit, Present, View
<1>4. OnColumns(NoRows) /\ \A c \in ColumnNames : NoRows[c] = {}
  BY DEF OnColumns, NoRows
<1>5. GoodView(Present)
  <2>1. OnView(Present)
    BY <1>3, <1>4, ViewIs DEF Present
  <2> QED BY <2>1, <1>2, <1>3, <1>4 DEF GoodView, ColumnNames
<1>6. GoodRest
  BY DEF BrowserInit, GoodRest
<1> QED BY <1>1, <1>2, <1>5, <1>6 DEF BrowserInv

LEMMA BrowserInvStep == BrowserInv /\ [BrowserNext]_browserVars => BrowserInv'
<1> SUFFICES ASSUME BrowserInv, [BrowserNext]_browserVars PROVE BrowserInv'
  OBVIOUS
<1>1. CASE BrowserNext
  BY <1>1, LibraryStep, RestStep DEF BrowserInv
<1>2. CASE UNCHANGED browserVars
  <2>1. Present' = Present
    BY <1>2 DEF browserVars, Present, View
  <2> QED BY <1>2, <2>1 DEF browserVars, BrowserInv, GoodLibrary, GoodView, OnView, OnColumns, GoodRest
<1> QED BY <1>1, <1>2

LEMMA BrowserInvariant == BrowserSpec => []BrowserInv
BY BrowserInitInv, BrowserInvStep, PTL DEF BrowserSpec

LEMMA BrowserTypes == BrowserInv => BrowserTypeOK
<1>1. Present.items = items /\ Present.selected = selected
  BY DEF Present, View
<1> QED BY <1>1 DEF BrowserInv, GoodLibrary, GoodView, GoodRest, BrowserTypeOK

(* LibraryBrowser: what is selected is shown, what is marked is in the     *)
(* library, and the genres and albums never have the entry of the          *)
(* compilations.                                                           *)
THEOREM BrowserTypeCorrect == BrowserSpec => []BrowserTypeOK
BY BrowserInvariant, BrowserTypes, PTL

-----------------------------------------------------------------------------
(* LibraryBrowser: what the columns show.                                  *)

\* Every column has the rows that it would have after a reload.
Current ==
  enabled /\ import = None =>
    \A c \in ColumnNames : Fresh(Present, c)

(* What is shown has the rows of what was reloaded.                        *)
LEMMA ShowsFresh ==
  ASSUME NEW w, Show(w), w.library = library', w.search = search',
         NEW c \in ColumnNames, Fresh(w, c)
  PROVE  Fresh(Present, c)'
<1>1. /\ Present'.items = w.items /\ Present'.selected = w.selected
      /\ Present'.library = w.library /\ Present'.search = w.search
  BY DEF Show, Present, View
<1>2. RowsOf(w, c) = RowsOf(Present', c)
  BY <1>1, RowsByLeft
<1> QED BY <1>1, <1>2 DEF Fresh

(* Every column is fresh after all have been reloaded.                     *)
LEMMA ReloadAllIsCurrent ==
  ASSUME BrowserInv, ReloadAll(library'), UNCHANGED search
  PROVE  Current' /\ \A c \in ColumnNames : Fresh(Present, c)'
<1> DEFINE v == View(library', search)
           w == ReloadColumns(v)
<1>1. OnView(v) /\ v.library = library' /\ v.search = search
  <2>1. OnColumns(items) /\ OnColumns(selected)
    BY ViewIs DEF BrowserInv, GoodView, OnView, Present
  <2> QED BY <2>1, ViewIs
<1> HIDE DEF v
<1>2. w.library = library' /\ w.search = search' /\ \A c \in ColumnNames : Fresh(w, c)
  BY <1>1, AllReload DEF Touches
<1>3. Show(w)
  BY DEF ReloadAll, v
<1> HIDE DEF w
<1>4. ASSUME NEW c \in ColumnNames PROVE Fresh(Present, c)'
  BY <1>2, <1>3, ShowsFresh
<1> QED BY <1>4 DEF Current

(* So they are after a search.                                             *)
LEMMA SearchIsCurrent ==
  ASSUME BrowserInv, NEW for, InitiateSearch(for)
  PROVE  Current' /\ \A c \in ColumnNames : Fresh(Present, c)'
<1> DEFINE v == SearchedView(for)
           w == ReloadColumns(v)
<1>1. OnView(v) /\ v.library = library' /\ v.search = search'
  BY SearchedViewIs DEF GoodView, InitiateSearch
<1> HIDE DEF v
<1>2. w.library = library' /\ w.search = search' /\ \A c \in ColumnNames : Fresh(w, c)
  BY <1>1, AllReload DEF Touches
<1>3. Show(w)
  BY InitiateShows DEF v
<1> HIDE DEF w
<1>4. ASSUME NEW c \in ColumnNames PROVE Fresh(Present, c)'
  BY <1>2, <1>3, ShowsFresh
<1> QED BY <1>4 DEF Current

(* A selection reloads what it has to.                                     *)
LEMMA SelectIsCurrent ==
  ASSUME BrowserInv, NEW c \in ColumnNames, NEW rows \in SUBSET items[c], Select(c, rows)
  PROVE  /\ Current => Current'
         /\ c # "song" => Fresh(Present, "song")'
<1> DEFINE v == SetSelection(Present, c, rows)
           w == SelectionDidChange(v, c)
           right == {d \in ColumnNames : c \in LeftOf(d)}
<1>1. /\ Touches(Present, v, {c}) /\ v.items = items
      /\ Touches(v, w, right) /\ \A d \in right : Fresh(w, d)
      /\ Show(w) /\ w.library = library' /\ w.search = search'
  BY SelectShows, ZenonT(40)
<1>2. UNCHANGED <<library, search, enabled, import>>
  BY DEF Select
<1>3. Present.items = items
  BY DEF Present, View
<1> HIDE DEF v, w, right
<1>4. ASSUME NEW d \in ColumnNames, d \in right \/ Fresh(Present, d)
      PROVE  Fresh(Present, d)'
  <2>1. CASE d \in right
    BY <2>1, <1>1, ShowsFresh
  <2>2. CASE d \notin right
    <3>1. LeftOf(d) \cap right = {} /\ LeftOf(d) \cap {c} = {}
      BY <2>2, ColumnOrder DEF right, ColumnNames
    <3>2. RowsOf(Present, d) = RowsOf(v, d) /\ RowsOf(v, d) = RowsOf(w, d)
      BY <1>1, <3>1, RowsUntouched
    <3>3. w.items[d] = Present.items[d]
      BY <1>1, <1>3, <2>2 DEF Touches
    <3>4. Fresh(w, d)
      BY <3>2, <3>3, <1>4, <2>2 DEF Fresh
    <3> QED BY <3>4, <1>1, ShowsFresh
  <2> QED BY <2>1, <2>2
<1>5. c # "song" => "song" \in right
  BY ColumnOrder DEF right, ColumnNames
<1> QED BY <1>2, <1>4, <1>5, ColumnOrder DEF Current

LEMMA SamePresent ==
  ASSUME UNCHANGED <<library, search, items, selected>>
  PROVE  \A c : Fresh(Present, c)' <=> Fresh(Present, c)
<1>1. Present' = Present
  BY DEF Present, View
<1> QED BY <1>1 DEF Fresh

(* Every action keeps the columns current.                                 *)
LEMMA CurrentStep ==
  ASSUME BrowserInv, Current, [BrowserNext]_browserVars
  PROVE  Current'
<1>1. CASE UNCHANGED browserVars
  BY <1>1, SamePresent DEF browserVars, Current
<1>2. ASSUME NEW c \in ColumnNames, NEW rows \in SUBSET items[c], Selects(c, rows) PROVE Current'
  BY <1>2, SelectIsCurrent DEF Selects
<1>3. ASSUME NEW for \in LibrarySearches, InitiateSearch(for) PROVE Current'
  BY <1>3, SearchIsCurrent
<1>4. ASSUME SetToggleIsPartOfCompilation PROVE Current'
  BY <1>4, ReloadAllIsCurrent DEF SetToggleIsPartOfCompilation
<1>5. ASSUME DetectCompilations PROVE Current'
  BY <1>5, ReloadAllIsCurrent DEF DetectCompilations
<1>6. ASSUME ClientConnected PROVE Current'
  <2>1. CASE UNCHANGED <<items, selected, enabled>>
    BY <1>6, <2>1, SamePresent DEF ClientConnected, Current
  <2>2. CASE ReloadAll(library)
    BY <1>6, <2>2, ReloadAllIsCurrent DEF ClientConnected
  <2> QED BY <1>6, <2>1, <2>2 DEF ClientConnected
<1>7. ASSUME ClientDisconnected PROVE Current'
  BY <1>7 DEF ClientDisconnected, ClearAndDisableViews, Current
<1>8. ASSUME ProfileSwitched PROVE Current'
  BY <1>8, ReloadAllIsCurrent DEF ProfileSwitched
<1>9. ASSUME BeginImport PROVE Current'
  <2>1. import' \in SUBSET {"written", "cleared"}
    BY <1>9 DEF BeginImport
  <2> QED BY <2>1, BrowserAssumption DEF Current
<1>10. ASSUME NEW songs \in Catalogs, WriteImport(songs) PROVE Current'
  <2>1. import' \in SUBSET {"written", "cleared"}
    BY <1>10 DEF WriteImport, BrowserInv, GoodRest
  <2> QED BY <2>1, BrowserAssumption DEF Current
<1>11. ASSUME LibraryBeganImporting PROVE Current'
  BY <1>11 DEF LibraryBeganImporting, ClearAndDisableViews, Current
<1>12. ASSUME LibraryFinishedImporting PROVE Current'
  BY <1>12, ReloadAllIsCurrent DEF LibraryFinishedImporting
<1> QED BY <1>1, <1>2, <1>3, <1>4, <1>5, <1>6, <1>7, <1>8, <1>9, <1>10, <1>11, <1>12
       DEF BrowserNext, Selects

\* The songs that all filters of column c let through
FilteredFor(c) ==
  {s \in library.songs :
     \A f \in MusicSearchFilters(library, search) \cup
               UNION {RequiredFilters(library, d, selected[d]) : d \in LeftOf(c)} : s \in f}

(* The search finds what it is for.                                        *)
LEMMA SearchFinds ==
  ASSUME BrowserInv, NEW s \in library.songs
  PROVE  (\A f \in MusicSearchFilters(library, search) : s \in f) <=> Found(s)
<1>1. search.fields \subseteq {"album", "title", "artist"}
  BY BrowserAssumption DEF BrowserInv, GoodRest
<1>2. CASE search.tokens = {}
  BY <1>2 DEF MusicSearchFilters, Found
<1>3. CASE search.tokens # {}
  <2> DEFINE all == UNION {StringFilter(library, field, search.tokens) :
                             field \in {"album", "title", "artist"} \cap search.fields}
  <2>1. MusicSearchFilters(library, search) = {all}
    BY <1>3 DEF MusicSearchFilters
  <2>2. s \in all <=> \E field \in search.fields : s \in StringFilter(library, field, search.tokens)
    BY <1>1
  <2> HIDE DEF all
  <2>3. \A field : s \in StringFilter(library, field, search.tokens)
                     <=> \A t \in search.tokens : Text(s, field) \in Matching[t]
    BY DEF StringFilter
  <2> QED BY <1>3, <2>1, <2>2, <2>3 DEF Found
<1> QED BY <1>2, <1>3

(* The filter of a column lets through the songs under what is selected.   *)
LEMMA FilterOfColumn ==
  ASSUME BrowserInv, NEW s \in library.songs, NEW c \in {"genre", "artist", "album"}, NEW rows
  PROVE  (\A f \in RequiredFilters(library, c, rows) : s \in f)
           <=> rows = {} \/ EntryOf(c, s) \in rows
<1>1. CASE rows = {}
  BY <1>1 DEF RequiredFilters
<1>2. CASE rows # {} /\ c # "artist"
  BY <1>2 DEF RequiredFilters, IdFilter, EntryOf
<1>3. CASE rows # {} /\ c = "artist"
  <2>1. RequiredFilters(library, c, rows) = {ArtistFilter(library, rows)}
    BY <1>3 DEF RequiredFilters
  <2>2. Compilation # <<library.gen, s["artist"]>>
    BY SongsAreNoEntry DEF BrowserInv
  <2>3. /\ s \in BooleanFilter(library, Compilation \in rows)
             <=> (s \in library.compilation <=> Compilation \in rows)
        /\ s \in IdFilter(library, "artist", rows) <=> <<library.gen, s["artist"]>> \in rows
    BY DEF BooleanFilter, IdFilter
  <2>4. s \in ArtistFilter(library, rows) <=> EntryOf("artist", s) \in rows
    <3>1. CASE rows = {Compilation}
      BY <3>1, <2>2, <2>3 DEF ArtistFilter, EntryOf
    <3>2. CASE rows # {Compilation} /\ Compilation \in rows
      BY <3>2, <2>3 DEF ArtistFilter, EntryOf
    <3>3. CASE Compilation \notin rows
      BY <3>3, <2>3 DEF ArtistFilter, EntryOf
    <3> QED BY <3>1, <3>2, <3>3
  <2> QED BY <1>3, <2>1, <2>4
<1> QED BY <1>1, <1>2, <1>3

(* All filters of a column let through what it has to show.                *)
LEMMA FilteredIsShown ==
  ASSUME BrowserInv, NEW c \in ColumnNames
  PROVE  FilteredFor(c) = Shown(c)
<1>1. ASSUME NEW s \in library.songs
      PROVE  s \in FilteredFor(c) <=> s \in Shown(c)
  <2> DEFINE Required(d) == RequiredFilters(library, d, selected[d])
  <2>1. LeftOf(c) \subseteq {"genre", "artist", "album"}
    BY ColumnOrder DEF ColumnNames
  <2>2. s \in FilteredFor(c) <=>
          /\ \A f \in MusicSearchFilters(library, search) : s \in f
          /\ \A d \in LeftOf(c) : \A f \in Required(d) : s \in f
    BY DEF FilteredFor
  <2>3. \A d \in LeftOf(c) : (\A f \in Required(d) : s \in f)
                               <=> (selected[d] = {} \/ EntryOf(d, s) \in selected[d])
    BY <2>1, FilterOfColumn
  <2> HIDE DEF Required
  <2> QED BY <2>2, <2>3, SearchFinds DEF Shown
<1> QED BY <1>1 DEF FilteredFor, Shown

(* A current column has the rows of what it has to show.                   *)
LEMMA CurrentFollows == BrowserInv /\ Current => ColumnsFollowSelection
<1> SUFFICES ASSUME BrowserInv, Current, enabled, import = None
             PROVE  /\ \A c \in ColumnNames \ {"song"} : items[c] = {EntryOf(c, s) : s \in Shown(c)}
                    /\ {r.song : r \in items["song"]} = Shown("song")
                    /\ \A r \in items["song"] : r.isCompilation = (r.song \in library.compilation)
  BY DEF ColumnsFollowSelection
<1>1. ASSUME NEW c \in ColumnNames
      PROVE  items[c] = CASE c = "artist" -> ArtistsFromQuery(library, Shown(c))
                          [] c = "song" -> {[gen |-> library.gen, song |-> s,
                                isCompilation |-> s \in library.compilation] : s \in Shown(c)}
                          [] OTHER -> {<<library.gen, s[c]>> : s \in Shown(c)}
  <2>1. /\ items[c] = RowsOf(Present, c) /\ Present.selected = selected
        /\ Present.library = library /\ Present.search = search
    BY DEF Current, Fresh, Present, View
  <2>2. items[c] = RequestRows(library, c, MusicSearchFilters(library, search) \cup
                     UNION {RequiredFilters(library, d, selected[d]) : d \in LeftOf(c)})
    BY <2>1 DEF RowsOf
  <2>3. FilteredFor(c) = Shown(c)
    BY FilteredIsShown
  <2> QED BY <2>2, <2>3 DEF RequestRows, FilteredFor
<1>2. ASSUME NEW c \in {"genre", "album"} PROVE items[c] = {EntryOf(c, s) : s \in Shown(c)}
  BY <1>1 DEF ColumnNames, EntryOf
<1>3. items["artist"] = {EntryOf("artist", s) : s \in Shown("artist")}
  <2>1. items["artist"] = ArtistsFromQuery(library, Shown("artist"))
    BY <1>1 DEF ColumnNames
  <2> QED BY <2>1 DEF ArtistsFromQuery, EntryOf
<1>4. items["song"] = {[gen |-> library.gen, song |-> s,
                        isCompilation |-> s \in library.compilation] : s \in Shown("song")}
  BY <1>1 DEF ColumnNames
<1>5. {r.song : r \in items["song"]} = Shown("song")
      /\ \A r \in items["song"] : r.isCompilation = (r.song \in library.compilation)
  <2> DEFINE row(s) == [gen |-> library.gen, song |-> s,
                        isCompilation |-> s \in library.compilation]
  <2>1. items["song"] = {row(s) : s \in Shown("song")}
    BY <1>4
  <2>2. \A s : row(s).song = s /\ row(s).isCompilation = (s \in library.compilation)
    OBVIOUS
  <2> HIDE DEF row
  <2> QED BY <2>1, <2>2
<1> QED BY <1>2, <1>3, <1>5 DEF ColumnNames

(* LibraryBrowser: unless an import is going on, enabled columns show the  *)
(* songs that the search finds, under what is selected to their left, with *)
(* the marked songs under the compilations and nowhere else; whatever the  *)
(* library, and however it is searched, marked and imported.               *)
THEOREM ColumnsFollow == BrowserSpec => []ColumnsFollowSelection
<1>1. BrowserInit => Current
  BY DEF BrowserInit, Current
<1>2. BrowserSpec => []Current
  BY <1>1, CurrentStep, BrowserInvariant, PTL DEF BrowserSpec
<1> QED BY <1>2, BrowserInvariant, CurrentFollows, PTL

-----------------------------------------------------------------------------
(* LibraryBrowser: marks and selections.                                   *)

(* The songs that are marked are those in the rows of the present library. *)
LEMMA ChosenBySongs ==
  ASSUME BrowserInv
  PROVE  SongsOfRows(library, selected["song"])
           = {r.song : r \in {q \in selected["song"] : q.gen = library.gen}}
<1>1. \A r \in selected["song"] : r.gen = library.gen => r.song \in library.songs
  <2>1. Present.items = items /\ Present.selected = selected /\ Present.library = library
    BY DEF Present, View
  <2> QED BY <2>1 DEF BrowserInv, GoodView, ColumnNames
<1>2. \A s, t \in library.songs : s.file = t.file => s = t
  BY LibraryIsListing DEF BrowserInv, Listing
<1>3. ASSUME NEW s \in library.songs
      PROVE  <<library.gen, s.file>> \in {Identifier("song", r) : r \in selected["song"]}
               <=> \E r \in selected["song"] : r.gen = library.gen /\ r.song = s
  <2>1. <<library.gen, s.file>> \in {Identifier("song", r) : r \in selected["song"]}
          <=> \E r \in selected["song"] : r.gen = library.gen /\ r.song.file = s.file
    BY DEF Identifier
  <2> QED BY <2>1, <1>1, <1>2
<1> QED BY <1>1, <1>3 DEF SongsOfRows

\* What MarksOnlyChosen says of a step
MarksStep ==
  library'.compilation # library.compilation /\ library'.gen = library.gen
       /\ ~(/\ library.compilation \subseteq library'.compilation
            /\ library'.compilation \subseteq
                 library.compilation \cup DataSourceResults(library.songs))
       => LET chosen == {r.song : r \in {q \in selected["song"] : q.gen = library.gen}} IN
          library'.compilation \in {library.compilation \cup chosen, library.compilation \ chosen}

LEMMA MarksStepHolds ==
  ASSUME BrowserInv, BrowserNext
  PROVE  MarksStep
<1>1. CASE library' = library
  BY <1>1 DEF MarksStep
<1>2. ASSUME SetToggleIsPartOfCompilation PROVE MarksStep
  <2> DEFINE chosen == {r.song : r \in {q \in selected["song"] : q.gen = library.gen}}
  <2>1. \E marks \in {library.compilation \cup chosen, library.compilation \ chosen} :
          library' = [library EXCEPT !.compilation = marks]
    BY <1>2, ToggleMarks, ChosenBySongs
  <2> HIDE DEF chosen
  <2>2. library'.compilation \in {library.compilation \cup chosen, library.compilation \ chosen}
    BY <2>1 DEF BrowserInv
  <2> QED BY <2>2 DEF MarksStep, chosen
<1>3. ASSUME DetectCompilations PROVE MarksStep
  <2>1. library'.compilation = library.compilation \cup DataSourceResults(library.songs)
    BY <1>3, DetectMarks DEF BrowserInv
  <2> QED BY <2>1 DEF MarksStep
<1>4. ASSUME NEW songs \in Catalogs, WriteImport(songs) PROVE MarksStep
  <2>1. library'.gen # library.gen
    BY <1>4, ImportWrites
  <2> QED BY <2>1 DEF MarksStep
<1>5. ASSUME NEW c \in ColumnNames, NEW rows \in SUBSET items[c], Selects(c, rows)
      PROVE  library' = library
  BY <1>5 DEF Selects, Select
<1> QED BY <1>1, <1>2, <1>3, <1>4, <1>5
       DEF BrowserNext, Selects, InitiateSearch, ClientConnected, ClientDisconnected,
           ProfileSwitched, BeginImport, LibraryBeganImporting, LibraryFinishedImporting

(* LibraryBrowser: of one library, toggling changes the marks of just the  *)
(* songs in the selected rows, and leaves them all marked or all unmarked, *)
(* even when the rows are older than the library; the detector only adds.  *)
THEOREM MarksAreOfChosen == BrowserSpec => MarksOnlyChosen
<1>1. BrowserInv /\ [BrowserNext]_browserVars => [MarksStep]_browserVars
  BY MarksStepHolds
<1>2. BrowserSpec => [][MarksStep]_browserVars
  BY <1>1, BrowserInvariant, PTL DEF BrowserSpec
<1> QED BY <1>2, PTL DEF MarksOnlyChosen, MarksStep

-----------------------------------------------------------------------------
(* LibraryBrowser: what stays selected.                                    *)

\* The row of a song
SongRow(lib, s) == [gen |-> lib.gen, song |-> s, isCompilation |-> s \in lib.compilation]

\* What is selected in column d lets a song through.
Passes(v, d, s) == \A f \in RequiredFilters(v.library, d, v.selected[d]) : s \in f

\* So do the search and the columns of genres and artists.
Open(v, s) ==
  /\ s \in v.library.songs
  /\ \A f \in MusicSearchFilters(v.library, v.search) : s \in f
  /\ Passes(v, "genre", s) /\ Passes(v, "artist", s)

\* So does the column of albums.
AlbumMatches(v, s) ==
  v.selected["album"] = {} \/ <<v.library.gen, s["album"]>> \in v.selected["album"]

(* The rows of a column, by the songs that are let through.                *)
LEMMA RowsAre ==
  ASSUME NEW v
  PROVE  /\ \A r : r \in RowsOf(v, "song") <=>
                \E s \in v.library.songs : /\ Open(v, s) /\ AlbumMatches(v, s)
                                          /\ r = SongRow(v.library, s)
         /\ \A r : r \in RowsOf(v, "album") <=>
                \E s \in v.library.songs : Open(v, s) /\ r = <<v.library.gen, s["album"]>>
<1> DEFINE Through(c) == MusicSearchFilters(v.library, v.search) \cup
                           UNION {RequiredFilters(v.library, d, v.selected[d]) : d \in LeftOf(c)}
<1>1. ASSUME NEW s \in v.library.songs
      PROVE  /\ (\A f \in Through("album") : s \in f) <=> Open(v, s)
             /\ (\A f \in Through("song") : s \in f) <=> Open(v, s) /\ Passes(v, "album", s)
  <2>1. ASSUME NEW c PROVE (\A f \in Through(c) : s \in f) <=>
          /\ \A f \in MusicSearchFilters(v.library, v.search) : s \in f
          /\ \A d \in LeftOf(c) : Passes(v, d, s)
    BY DEF Passes
  <2> HIDE DEF Through
  <2> QED BY <2>1, ColumnOrder DEF Open
<1>2. ASSUME NEW s \in v.library.songs PROVE Passes(v, "album", s) <=> AlbumMatches(v, s)
  BY DEF Passes, AlbumMatches, RequiredFilters, IdFilter
<1>3. ASSUME NEW r
      PROVE  /\ r \in RowsOf(v, "song") <=>
                  \E s \in v.library.songs :
                     (\A f \in Through("song") : s \in f) /\ r = SongRow(v.library, s)
             /\ r \in RowsOf(v, "album") <=>
                  \E s \in v.library.songs :
                     (\A f \in Through("album") : s \in f) /\ r = <<v.library.gen, s["album"]>>
  BY DEF RowsOf, RequestRows, SongRow
<1> HIDE DEF Through
<1> QED BY <1>1, <1>2, <1>3

(* What was selected and is still there is selected again.                 *)
LEMMA Again ==
  ASSUME NEW v, NEW c
  PROVE  /\ v.selected[c] # {Compilation} =>
                v.selected[c] \cap RowsOf(v, c) \subseteq LoadedAgain(v, c)
         /\ c # "song" /\ v.selected[c] = {} => LoadedAgain(v, c) = {}
<1> DEFINE saved == SaveSelectionInformation(c, v.selected[c])
           rows == RowsOf(v, c)
           found == {r \in rows : IF r = Compilation THEN saved.compilation
                                  ELSE Identifier(c, r) \in saved.indexes}
<1>1. /\ saved.indexes = {Identifier(c, r) : r \in v.selected[c] \ {Compilation}}
      /\ saved.compilation = (Compilation \in v.selected[c])
  BY DEF SaveSelectionInformation
<1>2. LoadedAgain(v, c) = IF saved.indexes = {} \/ found = {} THEN FirstRow(c, rows) ELSE found
  BY DEF LoadedAgain, LoadSelection
<1> HIDE DEF saved, rows
<1>3. ASSUME v.selected[c] # {Compilation}, NEW q \in v.selected[c] \cap rows
      PROVE  q \in LoadedAgain(v, c)
  <2>1. q \in found
    BY <1>1, <1>3
  <2>2. saved.indexes # {}
    BY <1>1, <1>3
  <2> QED BY <2>1, <2>2, <1>2
<1>4. c # "song" /\ v.selected[c] = {} => LoadedAgain(v, c) = {}
  BY <1>1, <1>2 DEF FirstRow
<1> QED BY <1>3, <1>4 DEF rows

(* What lets a song through depends on the columns to the left.            *)
LEMMA StaysOpen ==
  ASSUME NEW v, NEW w, NEW columns, Touches(v, w, columns), NEW s
  PROVE  /\ columns \subseteq {"album", "song"} => (Open(v, s) <=> Open(w, s))
         /\ "album" \notin columns => (AlbumMatches(v, s) <=> AlbumMatches(w, s))
<1>1. w.library = v.library /\ w.search = v.search
  BY DEF Touches
<1>2. ASSUME columns \subseteq {"album", "song"} PROVE Open(v, s) <=> Open(w, s)
  <2>1. w.selected["genre"] = v.selected["genre"] /\ w.selected["artist"] = v.selected["artist"]
    BY <1>2, ColumnOrder DEF Touches
  <2> QED BY <1>1, <2>1 DEF Open, Passes
<1>3. ASSUME "album" \notin columns PROVE AlbumMatches(v, s) <=> AlbumMatches(w, s)
  <2>1. w.selected["album"] = v.selected["album"]
    BY <1>3, ColumnOrder DEF Touches
  <2> QED BY <1>1, <2>1 DEF AlbumMatches
<1> QED BY <1>2, <1>3

(* A song that is let through stays selected when the column of songs      *)
(* follows, and when that of albums does,                                  *)
LEMMA SongStays ==
  ASSUME NEW v, OnView(v), GoodLibrary(v.library), NEW s, Open(v, s), AlbumMatches(v, s),
         SongRow(v.library, s) \in v.selected["song"]
  PROVE  SongRow(v.library, s) \in SongFollows(v).selected["song"]
<1>1. SongRow(v.library, s) \in RowsOf(v, "song")
  BY RowsAre DEF Open
<1>2. v.selected["song"] # {Compilation}
  BY <1>1, RowsOfLibrary
<1> QED BY <1>1, <1>2, Again, SongIsFollowing

LEMMA SongStaysBehindAlbums ==
  ASSUME NEW v, OnView(v), GoodLibrary(v.library), NEW s, Open(v, s), AlbumMatches(v, s),
         SongRow(v.library, s) \in v.selected["song"]
  PROVE  LET w == AlbumFollows(v) IN
         AlbumMatches(w, s) /\ SongRow(v.library, s) \in w.selected["song"]
<1> DEFINE row == SongRow(v.library, s)
           t == SaveSelection(v, "album")
           x == Emptied(t, "album")
           y == SongFollows(x)
           u == ReloadAlbum(t)
           w == SongFollows(u)
<1>1. w = AlbumFollows(v)
  BY DEF AlbumFollows
<1>2. Touches(v, t, {"album"}) /\ t.selected = v.selected /\ OnView(t) /\ t.library = v.library
  BY ColumnOrder, Saves DEF Touches
<1> HIDE DEF t
<1>3. /\ Touches(t, u, {"album", "song"})
      /\ t.selected["album"] = {} => Touches(t, u, {"album"})
      /\ t.selected["album"] # {} => Touches(y, u, {"album"})
  BY <1>2, AlbumReloads
<1>4. Touches(t, x, {"album"}) /\ x.selected["album"] = {}
  BY <1>2, ColumnOrder, Empties
<1> HIDE DEF u, x
<1>5. OnView(u) /\ u.library = v.library /\ Open(u, s)
  <2>1. Open(t, s)
    BY <1>2, StaysOpen
  <2> QED BY <1>2, <1>3, <2>1, StaysOpen DEF Touches
<1>6. Touches(u, w, {"song"})
  BY <1>5, SongIsFollowing
<1>7. AlbumMatches(w, s)
  <2>1. w.selected["album"] = LoadedAgain(v, "album") /\ w.library = v.library
    BY <1>1, <1>5, <1>6, AlbumIsFollowing DEF Touches
  <2>2. CASE v.selected["album"] = {}
    BY <2>1, <2>2, Again DEF AlbumMatches
  <2>3. CASE v.selected["album"] # {}
    <3> DEFINE album == <<v.library.gen, s["album"]>>
    <3>1. album \in v.selected["album"]
      BY <2>3 DEF AlbumMatches
    <3>2. album \in RowsOf(v, "album")
      BY RowsAre DEF Open
    <3>3. v.selected["album"] # {Compilation}
      BY <3>1, <3>2, RowsOfLibrary
    <3>4. album \in LoadedAgain(v, "album")
      BY <3>1, <3>2, <3>3, Again
    <3> QED BY <2>1, <3>4 DEF AlbumMatches
  <2> QED BY <2>2, <2>3
<1>8. AlbumMatches(u, s)
  BY <1>6, <1>7, StaysOpen
<1>9. row \in u.selected["song"]
  <2>1. row \in t.selected["song"]
    BY <1>2
  <2>2. CASE t.selected["album"] = {}
    BY <2>1, <2>2, <1>3, ColumnOrder DEF Touches
  <2>3. CASE t.selected["album"] # {}
    <3>1. OnView(x) /\ x.library = v.library /\ row \in x.selected["song"]
      BY <1>2, <1>4, <2>1, ColumnOrder DEF Touches
    <3>2. Open(x, s) /\ AlbumMatches(x, s)
      <4>1. Open(t, s)
        BY <1>2, StaysOpen
      <4>2. Open(x, s)
        BY <1>4, <4>1, StaysOpen
      <4> QED BY <1>4, <4>2 DEF AlbumMatches
    <3>3. row \in y.selected["song"]
      BY <3>1, <3>2, SongStays
    <3> QED BY <3>3, <2>3, <1>3, ColumnOrder DEF Touches
  <2> QED BY <2>2, <2>3
<1>10. row \in w.selected["song"]
  BY <1>5, <1>8, <1>9, SongStays
<1> HIDE DEF w
<1> QED BY <1>1, <1>7, <1>10

(* An album, or a song of a selected one, that is there in the end stays   *)
(* selected when the column of artists follows.                            *)
LEMMA StayBehindArtists ==
  ASSUME NEW v, OnView(v), GoodLibrary(v.library)
  PROVE  LET w == ArtistFollows(v) IN
         /\ v.selected["album"] \cap RowsOf(w, "album") \subseteq w.selected["album"]
         /\ \A s : /\ Open(w, s) /\ AlbumMatches(v, s)
                   /\ SongRow(v.library, s) \in v.selected["song"]
                   => SongRow(v.library, s) \in w.selected["song"]
<1> DEFINE t == SaveSelection(v, "artist")
           x == Emptied(t, "artist")
           y == AlbumFollows(x)
           u == ReloadArtist(t)
           w == AlbumFollows(u)
<1>1. w = ArtistFollows(v)
  BY DEF ArtistFollows
<1>2. Touches(v, t, {"artist"}) /\ t.selected = v.selected /\ OnView(t)
      /\ t.library = v.library /\ t.search = v.search
  BY ColumnOrder, Saves DEF Touches
<1> HIDE DEF t
<1>3. /\ Touches(t, u, {"artist", "album", "song"})
      /\ t.selected["artist"] = {} => Touches(t, u, {"artist"})
      /\ t.selected["artist"] # {} => Touches(y, u, {"artist"})
  BY <1>2, ArtistReloads
<1>4. Touches(t, x, {"artist"}) /\ x.selected["artist"] = {}
  BY <1>2, ColumnOrder, Empties
<1> HIDE DEF x
<1>5. /\ OnView(x) /\ x.library = v.library /\ x.search = v.search
      /\ x.selected["genre"] = v.selected["genre"]
      /\ x.selected["album"] = v.selected["album"] /\ x.selected["song"] = v.selected["song"]
  BY <1>2, <1>4, ColumnOrder DEF Touches
<1>6. Touches(x, y, {"album", "song"}) /\ y.selected["album"] = LoadedAgain(x, "album")
  BY <1>5, AlbumIsFollowing
<1> HIDE DEF u
<1>7. OnView(u) /\ u.library = v.library /\ u.search = v.search
      /\ u.selected["genre"] = v.selected["genre"]
  BY <1>2, <1>3, ColumnOrder DEF Touches
<1>8. Touches(u, w, {"album", "song"}) /\ w.selected["album"] = LoadedAgain(u, "album")
  BY <1>7, AlbumIsFollowing
<1>9. ASSUME NEW s, Open(u, s) PROVE Open(x, s)
  <2>1. Passes(x, "artist", s)
    BY <1>4 DEF Passes, RequiredFilters
  <2>2. Passes(x, "genre", s)
    BY <1>5, <1>7, <1>9 DEF Open, Passes
  <2> QED BY <1>5, <1>7, <1>9, <2>1, <2>2 DEF Open
<1>10. ASSUME NEW b \in v.selected["album"], b \in RowsOf(w, "album")
       PROVE  b \in w.selected["album"]
  <2>1. b \in RowsOf(u, "album")
    <3>1. LeftOf("album") \cap {"album", "song"} = {} /\ "album" \in ColumnNames
      BY ColumnOrder
    <3> QED BY <3>1, <1>8, <1>10, RowsUntouched
  <2>2. b \in RowsOf(x, "album") /\ b # Compilation
    BY <2>1, <1>5, <1>7, <1>9, RowsAre, RowsOfLibrary
  <2>3. b \in u.selected["album"]
    <3>1. CASE t.selected["artist"] = {}
      BY <3>1, <1>2, <1>3, ColumnOrder DEF Touches
    <3>2. CASE t.selected["artist"] # {}
      <4>1. b \in LoadedAgain(x, "album")
        BY <1>5, <2>2, Again
      <4> QED BY <3>2, <4>1, <1>3, <1>6, ColumnOrder DEF Touches
    <3> QED BY <3>1, <3>2
  <2> QED BY <2>1, <2>2, <2>3, <1>8, Again
<1>11. ASSUME NEW s, Open(w, s), AlbumMatches(v, s), SongRow(v.library, s) \in v.selected["song"]
       PROVE  SongRow(v.library, s) \in w.selected["song"]
  <2>1. Open(u, s)
    BY <1>8, <1>11, StaysOpen
  <2>2. AlbumMatches(u, s) /\ SongRow(v.library, s) \in u.selected["song"]
    <3>1. CASE t.selected["artist"] = {}
      <4>1. u.selected["album"] = v.selected["album"] /\ u.selected["song"] = v.selected["song"]
        BY <3>1, <1>2, <1>3, ColumnOrder DEF Touches
      <4> QED BY <4>1, <1>7, <1>11 DEF AlbumMatches
    <3>2. CASE t.selected["artist"] # {}
      <4>1. Open(x, s) /\ AlbumMatches(x, s)
        BY <2>1, <1>5, <1>9, <1>11 DEF AlbumMatches
      <4>2. AlbumMatches(y, s) /\ SongRow(v.library, s) \in y.selected["song"]
        BY <4>1, <1>5, <1>11, SongStaysBehindAlbums
      <4> HIDE DEF y
      <4>3. Touches(y, u, {"artist"})
        BY <3>2, <1>3 DEF y
      <4>4. u.selected["song"] = y.selected["song"]
        BY <4>3, ColumnOrder DEF Touches
      <4> QED BY <4>2, <4>3, <4>4, StaysOpen
    <3> QED BY <3>1, <3>2
  <2> QED BY <2>1, <2>2, <1>7, SongStaysBehindAlbums
<1> HIDE DEF w
<1> QED BY <1>1, <1>10, <1>11

(* The songs that are shown are of the selected albums, if they are of the *)
(* library that there is.                                                  *)
Matched(v) ==
  \A r \in v.items["song"] : r.gen = v.library.gen => AlbumMatches(v, r.song)

LEMMA FreshIsMatched == ASSUME NEW v, Fresh(v, "song") PROVE Matched(v)
BY RowsAre DEF Fresh, Matched, SongRow

LEMMA MatchedStep ==
  ASSUME BrowserInv, Matched(Present), [BrowserNext]_browserVars
  PROVE  Matched(Present')
<1>1. Fresh(Present, "song")' => Matched(Present')
  BY FreshIsMatched DEF Fresh
<1>2. ASSUME UNCHANGED <<library, items, selected>> PROVE Matched(Present')
  BY <1>2 DEF Present, View, Matched, AlbumMatches
<1>3. ASSUME ClearAndDisableViews PROVE Matched(Present')
  <2>1. Present'.items["song"] = {}
    BY <1>3 DEF ClearAndDisableViews, Present, View, NoRows, ColumnNames
  <2> QED BY <2>1 DEF Matched
<1>4. ASSUME ReloadAll(library'), UNCHANGED search PROVE Matched(Present')
  BY <1>1, <1>4, ReloadAllIsCurrent, ColumnOrder
<1>5. ASSUME NEW c \in ColumnNames, NEW rows \in SUBSET items[c], Selects(c, rows)
      PROVE  Matched(Present')
  <2>1. CASE c # "song"
    BY <2>1, <1>1, <1>5, SelectIsCurrent DEF Selects
  <2>2. CASE c = "song"
    <3> DEFINE v == SetSelection(Present, c, rows)
               w == SelectionDidChange(v, c)
    <3>1. Touches(Present, v, {c}) /\ v.items = items /\ Show(w)
      <4>1. Select(c, rows)
        BY <1>5 DEF Selects
      <4> QED BY <4>1, SelectShows, ZenonT(40)
    <3>2. w = v
      BY <2>2 DEF SelectionDidChange
    <3> HIDE DEF v, w
    <3>3. items' = items /\ selected'["album"] = selected["album"] /\ library' = library
      BY <1>5, <2>2, <3>1, <3>2, ColumnOrder DEF Show, Touches, Present, View, Selects, Select
    <3> QED BY <3>3 DEF Present, View, Matched, AlbumMatches
  <2> QED BY <2>1, <2>2
<1>6. ASSUME NEW for \in LibrarySearches, InitiateSearch(for) PROVE Matched(Present')
  BY <1>1, <1>6, SearchIsCurrent, ColumnOrder
<1>7. ASSUME NEW songs \in Catalogs, WriteImport(songs) PROVE Matched(Present')
  <2>1. library'.gen = library.gen + 1 /\ library.gen \in Nat /\ items' = items
    BY <1>7, ImportWrites DEF WriteImport
  <2>2. \A r \in items["song"] : r.gen \in Nat /\ r.gen <= library.gen
    BY DEF BrowserInv, GoodView, Present, View
  <2>3. \A r \in items'["song"] : r.gen # library'.gen
    BY <2>1, <2>2
  <2> QED BY <2>3 DEF Matched, Present, View
<1>8. CASE UNCHANGED browserVars
  BY <1>2, <1>8 DEF browserVars
<1> QED BY <1>2, <1>3, <1>4, <1>5, <1>6, <1>7, <1>8
       DEF BrowserNext, Selects, SetToggleIsPartOfCompilation, DetectCompilations,
           ClientConnected, ClientDisconnected, ProfileSwitched, BeginImport,
           LibraryBeganImporting, LibraryFinishedImporting

LEMMA BrowserMatched == BrowserSpec => []Matched(Present)
<1>1. BrowserInit => Matched(Present)
  BY DEF BrowserInit, Present, View, Matched, NoRows, ColumnNames
<1>2. BrowserInv /\ Matched(Present) /\ [BrowserNext]_browserVars => Matched(Present)'
  <2>1. Matched(Present') => Matched(Present)'
    BY DEF Matched
  <2> QED BY <2>1, MatchedStep
<1> QED BY <1>1, <1>2, BrowserInvariant, PTL DEF BrowserSpec

\* What is selected in column c and is still there stays selected.
Survives(c) == selected[c] \cap items'[c] \subseteq selected'[c]

LEMMA SelectedMatches ==
  ASSUME BrowserInv, Matched(Present), NEW s, SongRow(library, s) \in selected["song"]
  PROVE  AlbumMatches(Present, s)
<1>1. Present.items = items /\ Present.selected = selected /\ Present.library = library
  BY DEF Present, View
<1>2. SongRow(library, s) \in items["song"]
  BY <1>1, ColumnOrder DEF BrowserInv, GoodView
<1> QED BY <1>1, <1>2 DEF Matched, SongRow

(* What the user selects in another column leaves it selected.             *)
LEMMA SurvivesSelect ==
  ASSUME BrowserInv, Matched(Present), NEW c \in ColumnNames, selected[c] # {Compilation},
         NEW d \in ColumnNames \ {c}, NEW rows, Select(d, rows)
  PROVE  Survives(c)
<1> DEFINE v == SetSelection(Present, d, rows)
           w == SelectionDidChange(v, d)
           right == {e \in ColumnNames : d \in LeftOf(e)}
<1>1. /\ Touches(Present, v, {d}) /\ Touches(v, w, right)
      /\ \A e \in right : Fresh(w, e)
      /\ Show(w)
  BY SelectShows
<1>2. /\ OnView(v) /\ v.library = library /\ GoodLibrary(library) /\ v.selected[c] = selected[c]
      /\ w.library = library
  BY <1>1, ViewIs DEF Touches, BrowserInv, Present
<1> HIDE DEF v
<1>3. ASSUME c \in right, NEW q \in selected[c], q \in RowsOf(w, c)
      PROVE  q \in w.selected[c]
  <2>1. CASE d = "genre"
    <3>1. w = ArtistFollows(v) /\ c \in {"artist", "album", "song"}
      BY <2>1 DEF SelectionDidChange, ColumnNames
    <3>2. CASE c = "artist"
      <4>1. LeftOf(c) \cap right = {}
        BY <2>1, <3>2, ColumnOrder
      <4>2. RowsOf(v, c) = RowsOf(w, c)
        BY <4>1, <1>1, RowsUntouched
      <4> QED BY <1>2, <1>3, <3>1, <3>2, <4>2, Again, ArtistIsFollowing
    <3>3. CASE c = "album"
      BY <1>2, <1>3, <3>1, <3>3, StayBehindArtists
    <3>4. CASE c = "song"
      <4>1. PICK s \in library.songs : Open(w, s) /\ q = SongRow(library, s)
        BY <1>2, <1>3, <3>4, RowsAre
      <4>2. AlbumMatches(v, s)
        BY <1>1, <1>3, <2>1, <3>4, <4>1, SelectedMatches, StaysOpen
      <4> QED BY <1>2, <1>3, <3>1, <3>4, <4>1, <4>2, StayBehindArtists
    <3> QED BY <3>1, <3>2, <3>3, <3>4
  <2>2. CASE d = "artist"
    <3>1. w = AlbumFollows(v) /\ c \in {"album", "song"} /\ Touches(v, w, {"album", "song"})
      BY <2>2, <1>2, <1>3, ColumnOrder, AlbumIsFollowing DEF SelectionDidChange, ColumnNames
    <3>2. CASE c = "album"
      <4>1. LeftOf(c) \cap {"album", "song"} = {}
        BY <3>2, ColumnOrder
      <4>2. RowsOf(v, c) = RowsOf(w, c)
        BY <4>1, <3>1, RowsUntouched
      <4> QED BY <1>2, <1>3, <3>1, <3>2, <4>2, Again, AlbumIsFollowing
    <3>3. CASE c = "song"
      <4>1. PICK s \in library.songs : Open(w, s) /\ q = SongRow(library, s)
        BY <1>2, <1>3, <3>3, RowsAre
      <4>2. AlbumMatches(v, s)
        BY <1>1, <1>3, <2>2, <3>3, <4>1, SelectedMatches, StaysOpen
      <4>3. Open(v, s)
        BY <3>1, <4>1, StaysOpen
      <4> QED BY <1>2, <1>3, <3>1, <3>3, <4>1, <4>2, <4>3, SongStaysBehindAlbums
    <3> QED BY <3>1, <3>2, <3>3
  <2>3. CASE d = "album"
    <3>1. w = SongFollows(v) /\ c = "song"
      BY <2>3, <1>3, ColumnOrder DEF SelectionDidChange, ColumnNames
    <3>2. Touches(v, w, {"song"}) /\ LeftOf(c) \cap {"song"} = {}
      BY <3>1, <1>2, ColumnOrder, SongIsFollowing
    <3>3. RowsOf(v, c) = RowsOf(w, c)
      BY <3>2, RowsUntouched
    <3> QED BY <1>2, <1>3, <3>1, <3>3, Again, SongIsFollowing
  <2>4. d # "song"
    BY <1>3, ColumnOrder DEF right, ColumnNames
  <2> QED BY <2>1, <2>2, <2>3, <2>4 DEF ColumnNames
<1>4. selected' = w.selected /\ items' = w.items
  BY <1>1 DEF Show
<1> HIDE DEF w
<1>5. CASE c \in right
  BY <1>1, <1>3, <1>4, <1>5 DEF Survives, Fresh
<1>6. CASE c \notin right
  BY <1>1, <1>2, <1>4, <1>6 DEF Survives, Touches
<1> QED BY <1>5, <1>6

(* A column with nothing selected and nothing saved disturbs no other.     *)
LEMMA QuietReload ==
  ASSUME NEW v, OnView(v), NEW c \in {"genre", "artist", "album"},
         v.selected[c] = {}, v.saved[c].indexes = {}
  PROVE  LET w == CASE c = "genre" -> ReloadGenre(v)
                    [] c = "artist" -> ReloadArtist(v)
                    [] c = "album" -> ReloadAlbum(v) IN
         Touches(v, w, {c}) /\ w.selected[c] = {}
<1>1. LoadSelection(c, v.saved[c], RowsOf(v, c)) = {}
  BY DEF LoadSelection, FirstRow
<1>2. CASE c = "genre"
  BY <1>1, <1>2, GenreReloads
<1>3. CASE c = "artist"
  BY <1>1, <1>3, ArtistReloads
<1>4. CASE c = "album"
  BY <1>1, <1>4, AlbumReloads
<1> QED BY <1>2, <1>3, <1>4

(* A search leaves a column selected that has nothing selected to its left. *)
LEMMA SurvivesSearch ==
  ASSUME BrowserInv, NEW c \in ColumnNames, selected[c] # {Compilation},
         NEW for, InitiateSearch(for), \A d \in LeftOf(c) : selected[d] = {}
  PROVE  Survives(c)
<1> DEFINE v == SearchedView(for)
           s == ReloadGenre(v)
           t == ReloadArtist(s)
           u == ReloadAlbum(t)
           w == ReloadSong(u)
<1>1. /\ OnView(v) /\ v.selected = selected
      /\ \A d \in ColumnNames : v.saved[d] = SaveSelectionInformation(d, selected[d])
  BY SearchedViewIs DEF GoodView
<1>2. selected' = w.selected /\ items' = w.items
  BY InitiateShows DEF Show, ReloadColumns
<1>3. ASSUME NEW d \in ColumnNames, selected[d] = {} PROVE v.saved[d].indexes = {}
  <2>1. SaveSelectionInformation(d, {}).indexes = {}
    BY DEF SaveSelectionInformation
  <2> QED BY <1>1, <1>3, <2>1
<1> HIDE DEF v
\* before its turn, column c has its selection, and has it saved
<1> DEFINE Waits(x) == /\ OnView(x) /\ x.selected[c] = selected[c]
                       /\ x.saved[c] = SaveSelectionInformation(c, selected[c])
<1>4. Waits(v)
  BY <1>1
<1>5. ASSUME NEW x, NEW y, Waits(x), Fresh(y, c), RowsOf(x, c) = RowsOf(y, c),
             y.selected[c] = LoadSelection(c, x.saved[c], RowsOf(x, c))
      PROVE  selected[c] \cap y.items[c] \subseteq y.selected[c]
  <2>1. y.selected[c] = LoadedAgain(x, c)
    BY <1>5 DEF LoadedAgain
  <2>2. y.items[c] = RowsOf(x, c)
    BY <1>5 DEF Fresh
  <2>3. x.selected[c] = selected[c] /\ OnView(x)
    BY <1>5
  <2> HIDE DEF Waits
  <2> QED BY <2>1, <2>2, <2>3, Again
<1>6. CASE c = "genre"
  <2>1. Touches(v, s, ColumnNames) /\ Fresh(s, c)
        /\ s.selected[c] = LoadSelection(c, v.saved[c], RowsOf(v, c))
    BY <1>1, <1>6, GenreReloads
  <2> HIDE DEF s
  <2>2. RowsOf(v, c) = RowsOf(s, c)
    BY <2>1, <1>6, ColumnOrder, RowsByLeft DEF Touches
  <2>3. selected[c] \cap s.items[c] \subseteq s.selected[c]
    BY <2>1, <2>2, <1>4, <1>5
  <2>4. Touches(s, t, {"artist", "album", "song"})
    BY <2>1, ArtistReloads DEF Touches
  <2> HIDE DEF t
  <2>5. Touches(t, u, {"album", "song"})
    BY <2>4, AlbumReloads DEF Touches
  <2> HIDE DEF u
  <2>6. Touches(u, w, {"song"})
    BY <2>5, SongReloads DEF Touches
  <2> HIDE DEF w
  <2>7. w.items[c] = s.items[c] /\ w.selected[c] = s.selected[c]
    BY <2>4, <2>5, <2>6, <1>6, ColumnOrder DEF Touches
  <2> QED BY <1>2, <2>3, <2>7 DEF Survives
<1>7. CASE c # "genre"
  <2>1. selected["genre"] = {} /\ v.selected["genre"] = {} /\ v.saved["genre"].indexes = {}
    BY <1>1, <1>3, <1>7, ColumnOrder DEF ColumnNames
  <2>2. Touches(v, s, {"genre"}) /\ s.selected["genre"] = {}
    BY <2>1, <1>1, QuietReload
  <2> HIDE DEF s
  <2>3. Waits(s) /\ OnView(s)
    BY <2>2, <1>4, <1>7 DEF Touches
  <2>4. CASE c = "artist"
    <3>1. Touches(s, t, {"artist", "album", "song"}) /\ Fresh(t, c)
          /\ t.selected[c] = LoadSelection(c, s.saved[c], RowsOf(s, c))
      BY <2>3, <2>4, ArtistReloads
    <3> HIDE DEF t
    <3>2. RowsOf(s, c) = RowsOf(t, c)
      BY <3>1, <2>4, ColumnOrder, RowsUntouched
    <3>3. selected[c] \cap t.items[c] \subseteq t.selected[c]
      BY <3>1, <3>2, <2>3, <1>5
    <3>4. Touches(t, u, {"album", "song"})
      BY <3>1, AlbumReloads DEF Touches
    <3> HIDE DEF u
    <3>5. Touches(u, w, {"song"})
      BY <3>4, SongReloads DEF Touches
    <3> HIDE DEF w
    <3>6. w.items[c] = t.items[c] /\ w.selected[c] = t.selected[c]
      BY <3>4, <3>5, <2>4, ColumnOrder DEF Touches
    <3> QED BY <1>2, <3>3, <3>6 DEF Survives
  <2>5. CASE c \in {"album", "song"}
    <3>1. selected["artist"] = {} /\ s.selected["artist"] = {} /\ s.saved["artist"].indexes = {}
      BY <1>1, <1>3, <2>2, <2>5, ColumnOrder DEF Touches
    <3>2. Touches(s, t, {"artist"})
      BY <3>1, <2>3, QuietReload
    <3> HIDE DEF t
    <3>3. Waits(t) /\ OnView(t)
      BY <3>2, <2>3, <2>5 DEF Touches
    <3>4. CASE c = "album"
      <4>1. Touches(t, u, {"album", "song"}) /\ Fresh(u, c)
            /\ u.selected[c] = LoadSelection(c, t.saved[c], RowsOf(t, c))
        BY <3>3, <3>4, AlbumReloads
      <4> HIDE DEF u
      <4>2. RowsOf(t, c) = RowsOf(u, c)
        BY <4>1, <3>4, ColumnOrder, RowsUntouched
      <4>3. selected[c] \cap u.items[c] \subseteq u.selected[c]
        BY <4>1, <4>2, <3>3, <1>5
      <4>4. Touches(u, w, {"song"})
        BY <4>1, SongReloads DEF Touches
      <4> HIDE DEF w
      <4>5. w.items[c] = u.items[c] /\ w.selected[c] = u.selected[c]
        BY <4>4, <3>4, ColumnOrder DEF Touches
      <4> QED BY <1>2, <4>3, <4>5 DEF Survives
    <3>5. CASE c = "song"
      <4>1. selected["album"] = {} /\ t.selected["album"] = {} /\ t.saved["album"].indexes = {}
        BY <1>1, <1>3, <2>2, <3>2, <3>5, ColumnOrder DEF Touches
      <4>2. Touches(t, u, {"album"})
        BY <4>1, <3>3, QuietReload
      <4> HIDE DEF u
      <4>3. Waits(u) /\ OnView(u)
        BY <4>2, <3>3, <3>5 DEF Touches
      <4>4. Touches(u, w, {"song"}) /\ Fresh(w, c)
            /\ w.selected[c] = LoadSelection(c, u.saved[c], RowsOf(u, c))
        BY <4>3, <3>5, SongReloads
      <4> HIDE DEF w
      <4>5. RowsOf(u, c) = RowsOf(w, c)
        BY <4>4, <3>5, ColumnOrder, RowsUntouched
      <4>6. selected[c] \cap w.items[c] \subseteq w.selected[c]
        BY <4>3, <4>4, <4>5, <1>5
      <4> QED BY <1>2, <4>6 DEF Survives
    <3> QED BY <2>5, <3>4, <3>5
  <2> QED BY <1>7, <2>4, <2>5 DEF ColumnNames
<1> QED BY <1>6, <1>7

\* What SelectionSurvives says of a step
SurvivesStep ==
  /\ \A d \in ColumnNames : Losing \subseteq {d} \/ ~Select(d, selected'[d])
  /\ \/ \A c \in Losing : \E d \in LeftOf(c) : selected[d] # {}
     \/ ~InitiateSearch(search')

LEMMA SurvivesStepHolds == BrowserInv /\ Matched(Present) => SurvivesStep
<1> SUFFICES ASSUME BrowserInv, Matched(Present)
             PROVE  SurvivesStep
  OBVIOUS
<1>1. ASSUME NEW d \in ColumnNames, Select(d, selected'[d]),
             NEW c \in ColumnNames, selected[c] # {Compilation}, ~Survives(c)
      PROVE  c = d
  BY <1>1, SurvivesSelect
<1>2. ASSUME InitiateSearch(search'),
             NEW c \in ColumnNames, selected[c] # {Compilation}, ~Survives(c)
      PROVE  \E d \in LeftOf(c) : selected[d] # {}
  BY <1>2, SurvivesSearch
<1> QED BY <1>1, <1>2 DEF SurvivesStep, Losing, Survives

(* LibraryBrowser: a selection in another column leaves selected what is   *)
(* selected and still there, whatever reloads in between, but for the      *)
(* entry of the compilations when it is alone; and so does a search, of a  *)
(* column with nothing selected to its left.                               *)
THEOREM SelectionsSurvive == BrowserSpec => SelectionSurvives
<1>1. BrowserInv /\ Matched(Present) /\ [BrowserNext]_browserVars => [SurvivesStep]_browserVars
  BY SurvivesStepHolds
<1>2. BrowserSpec => [][SurvivesStep]_browserVars
  BY <1>1, BrowserInvariant, BrowserMatched, PTL DEF BrowserSpec
<1> QED BY <1>2 DEF SelectionSurvives, SurvivesStep
===============================================================================
