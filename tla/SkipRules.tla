----------------------------- MODULE SkipRules -----------------------------
(***************************************************************************)
(* Which files a scan looks at: the targets, the walk, the skip list with   *)
(* its carve-outs, the tests on the single file, and the books kept of all  *)
(* that.  Both editions; they differ in what a Windows entry matches.       *)
(*                                                                          *)
(* A path is a sequence of names.  What matters of a name's spelling is     *)
(* given by constants.                                                      *)
(***************************************************************************)
EXTENDS Naturals, Sequences, FiniteSets, SequencesExt

CONSTANTS
    Names,      \* whatever a file or a directory may be called
    Folded,     \* name -> the same in lower case, where it is another
    Begins,     \* <<d, c>>: the text of name c begins with that of name d
    Droppings,  \* skip_filenames
    Images,     \* names with one of skip_extensions
    Doubles,    \* names beginning with "._"
    Bundles,    \* names ending with ".app"
    Junctions,  \* names of reparse points and links to directories
    Looping,    \* those of them that _should_skip_junction knows
    Fact,       \* file name -> what scan_file finds; of the others, nothing
    Listed      \* system -> the entries of its list

Lower(n) == IF n \in DOMAIN Folded THEN Folded[n] ELSE n
Fold(p) == [i \in DOMAIN p |-> Lower(p[i])]

ASSUME SkipAssumption ==
    /\ \A n \in DOMAIN Folded : Folded[n] \in Names \ DOMAIN Folded
    /\ \A b \in Begins :
          Lower(b[1]) = b[1] => Lower(b[2]) = b[1] \/ <<b[1], Lower(b[2])>> \in Begins
    /\ Looping \subseteq Junctions
    /\ DOMAIN Listed = {"Windows", "Linux", "Darwin"}
    /\ Listed["Windows"] \cup Listed["Linux"] \subseteq Seq(Names) \ {<<>>}
    /\ Listed["Darwin"] \subseteq
          [shape : {"anchor", "fragment", "bundle"}, of : Seq(Names) \ {<<>>}]

(* "/x/y/" somewhere in the text of a path, and "/x/y" at its end. *)
PartAt(f, p, i) == \A k \in 1..Len(f) : p[i + k] = f[k]
Under(d, p) == Len(d) <= Len(p) /\ PartAt(d, p, 0)
Inside(f, p) == \E i \in 0..(Len(p) - Len(f) - 1) : PartAt(f, p, i)
AtTail(f, p) == Len(f) <= Len(p) /\ PartAt(f, p, Len(p) - Len(f))
(* Seeded fault: a fragment needs something after it. *)
InsideOnly(f, p) == Inside(f, p)
Occurs(f, p) == Inside(f, p) \/ AtTail(f, p)

(* Entries of the platform lists come in these shapes. *)
Anchor(s) == [shape |-> "anchor", of |-> s]         \* a top-level place
Fragment(s) == [shape |-> "fragment", of |-> s]     \* these names, anywhere
Bundle(s) == [shape |-> "bundle", of |-> s]         \* the same, in any .app
Text(s) == [shape |-> "text", of |-> s]             \* the letters, in front

Matches(e, p) ==
    CASE e.shape = "anchor" -> Under(e.of, p)
      [] e.shape = "fragment" -> Occurs(e.of, p)
      [] e.shape = "bundle" ->
            \E i \in 1..(Len(p) - Len(e.of) - 1) : p[i] \in Bundles /\ PartAt(e.of, p, i)
      [] e.shape = "text" ->
            /\ Len(p) >= Len(e.of) /\ Under(Front(e.of), p)
            /\ \/ p[Len(e.of)] = Last(e.of)
               \/ <<Last(e.of), p[Len(e.of)]>> \in Begins

(* _extra_skip_fragments: whole names only, and never the lone separator. *)
ExtraFragments(chunks) == {Fold(c) : c \in chunks} \ {<<>>}

(* The platform's list, with the scanner's own directory at its end.        *)
(* win_skip_patterns never match anything.                                  *)

XdrPlaces(system, own) ==
    CASE system = "Windows" -> {Text(Fold(e)) : e \in Listed[system] \cup {own}}
      [] system = "Linux" -> {Anchor(e) : e \in Listed[system] \cup {own}}
      [] system = "Darwin" ->
            {[e EXCEPT !.of = Fold(e.of)] : e \in Listed[system] \cup {Anchor(own)}}
      [] OTHER -> {}
XsiamPlaces(system, own) ==
    IF system = "Windows" THEN {Anchor(Fold(e)) : e \in Listed[system] \cup {own}}
    ELSE XdrPlaces(system, own)

(* skip_path_fragments, force_scan_fragments, force_scan_never_under *)
Policy(edition, system, own, chunks) ==
    [system |-> system, own |-> own,
     places |-> IF edition = "xdr" THEN XdrPlaces(system, own) ELSE XsiamPlaces(system, own),
     fragments |-> {<<"node_modules">>, <<"library", "caches">>} \cup ExtraFragments(chunks),
     forced |-> {<<"library", "caches", "firefox">>},
     never |-> {<<"volumes">>, <<"media">>}]

Forced(R, p) ==
    /\ \A b \in R.never : ~Occurs(b, Fold(p))
    /\ \E f \in R.forced : Occurs(f, Fold(p))

InPlace(R, p) ==
    \E e \in R.places : Matches(e, IF R.system = "Linux" THEN p ELSE Fold(p))

(* _is_special_file: the name, then the carve-outs, then the places, and    *)
(* then on macOS the name again.                                             *)
ByName(p) == p # <<>> /\ Last(Fold(p)) \in Droppings \cup Images
IsDouble(R, p) == R.system = "Darwin" /\ p # <<>> /\ Last(Fold(p)) \in Doubles
ByPlace(R, p) ==
    \/ \E f \in R.fragments : Occurs(f, Fold(p))
    \/ InPlace(R, p)
    \/ IsDouble(R, p)

(* Seeded fault: the fragments are looked at before the carve-outs. *)
FragmentsFirst(R, p) ==
    \/ ByName(p)
    \/ \E f \in R.fragments : Occurs(f, Fold(p))
    \/ ~Forced(R, p) /\ ByPlace(R, p)
IsSpecial(R, p) == ByName(p) \/ (~Forced(R, p) /\ ByPlace(R, p))
-----------------------------------------------------------------------------
(* _default_discover_targets.  world: what is mounted, what an ordinary user *)
(* may read, and whether this user is root.                                  *)
DefaultTargets(system, world) ==
    CASE system = "Windows" ->
            IF world.drives # {} THEN world.drives ELSE {<<"c:">>}
      [] system = "Linux" ->
            LET open == {<<"home">>, <<"tmp">>, <<"opt">>} \cap world.readable
            IN  IF world.root \/ open = {} THEN {<<>>} ELSE open
      [] system = "Darwin" ->
            LET open == {world.home, <<"applications">>, <<"opt">>} \cap world.readable
            IN  IF world.root THEN {<<>>} ELSE IF open = {} THEN {world.home} ELSE open
      [] OTHER -> {}

(* What was asked for and is a directory here; that there is none is an      *)
(* error.  Nothing asked for is everything.                                  *)
ScanTargets(system, asked, world) ==
    IF asked = {} THEN DefaultTargets(system, world) ELSE asked \cap world.dirs

(* What the configuration says of a requested folder before the scan: the    *)
(* entries as text, case as the operator typed it, the fragments not.        *)
Warned(R, p) ==
    \E e \in R.places : e.shape \in {"anchor", "text"} /\ Matches(e, p)

(* _should_skip_junction *)
SkipsJunction(p) == Last(Fold(p)) \in Looping

(* _walk_cancellable: links are not followed, junctions are, unless the loop *)
(* has taken them off the list; it does so only where it looks at the files. *)
Descends(R, p) ==
    /\ Last(Fold(p)) \in Junctions => R.system = "Windows"
    /\ SkipsJunction(p) => IsSpecial(R, Front(p))

Reached(R, target, p) ==
    /\ Under(target, p)
    /\ \A n \in (Len(target) + 1)..Len(p) : Descends(R, SubSeq(p, 1, n))

(* scan_file, in the order of its tests *)
ScanFile(R, p) ==
    LET fact == IF Last(p) \in DOMAIN Fact THEN Fact[Last(p)] ELSE {}
    IN  CASE "gone" \in fact -> "File does not exist"
          [] "locked" \in fact -> "No read permission"
          [] IsSpecial(R, p) -> "Special system file"
          [] "fifo" \in fact -> "Not a regular file"
          [] "huge" \in fact -> "File too large"
          [] "raises" \in fact -> "error"
          [] OTHER -> "scanned"

(* The loop of scan_system and the workers: what a file of a directory that  *)
(* the walk has reached is booked as.                                        *)
(* Seeded fault: a skipped directory touches no counter. *)
BareContinue(R, p) ==
    CASE IsSpecial(R, Front(p)) -> "nothing"
      [] SkipsJunction(p) -> "Junction/symlink skip"
      [] IsSpecial(R, p) -> "Special system file"
      [] OTHER -> ScanFile(R, p)
Booked(R, p) ==
    CASE IsSpecial(R, Front(p)) -> "Skipped directory"
      [] SkipsJunction(p) -> "Junction/symlink skip"
      [] IsSpecial(R, p) -> "Special system file"
      [] OTHER -> ScanFile(R, p)

(* One target after the other; files of overlapping targets count twice.     *)
Books(R, targets, files) ==
    LET booked == [x \in {y \in targets \X files : Reached(R, y[1], Front(y[2]))} |->
                      Booked(R, x[2])]
        As(outcomes) == {x \in DOMAIN booked : booked[x] \in outcomes}
        Skips == {"Skipped directory", "Junction/symlink skip", "Special system file",
                  "File does not exist", "No read permission", "Not a regular file",
                  "File too large", "error"}
    IN  [scanned |-> {x[2] : x \in As({"scanned"})},
         files_scanned |-> Cardinality(As({"scanned"})),
         files_skipped |-> Cardinality(As(Skips)),
         excluded_targets |-> {t \in targets : t # <<>> /\ IsSpecial(R, t)}]

-----------------------------------------------------------------------------
(* A name that ends no entry: a file with it is where its directory is. *)
Neutral(R, n) ==
    LET ends == {Last(f) : f \in R.fragments \cup R.never \cup {e.of : e \in R.places}}
    IN  /\ {n, Lower(n)} \cap (ends \cup Doubles) = {}
        /\ \A d \in ends : <<d, n>> \notin Begins /\ <<d, Lower(n)>> \notin Begins

(* A target whose files are all excluded for their place, one of a neutral   *)
(* name among them, is named on the result line, for a clean zero would read *)
(* as "nothing here" (an entry for what is in an app excepted, which wants   *)
(* something after it); so is each the operator was warned of before; and    *)
(* under a target that is named for its place, not for what it is called,    *)
(* only the carve-outs are scanned.                                          *)
ExcludedIsTold(R, targets, files, books) ==
    LET below(t) == {p \in files : Under(t, p)}
        Apps == {e \in R.places : e.shape = "bundle"}
    IN  \A t \in targets \ {<<>>} :
          /\ /\ \E p \in below(t) : Front(p) = t /\ Neutral(R, Last(p))
             /\ \A e \in Apps : ~\E p \in below(t) : Matches(e, Fold(p))
             /\ \A p \in below(t) : ByPlace(R, p) /\ ~Forced(R, p)
             => t \in books.excluded_targets
          /\ Warned(R, t) /\ ~Forced(R, t) => t \in books.excluded_targets
          /\ t \in books.excluded_targets /\ ~ByName(t) /\ ~IsDouble(R, t)
                => \A p \in below(t) \cap books.scanned : Forced(R, p)

(* The carve-outs are reached, although the directories on the way to them   *)
(* are excluded: an ordinary file in one is scanned.  One that is called     *)
(* like a mount point is not: it counts as what is under it.                 *)
ForcedIsScanned(R, targets, files, books) ==
    {p \in files :
        /\ Forced(R, Front(p)) /\ ~ByName(Front(p)) /\ ~ByName(p) /\ ~SkipsJunction(p)
        /\ Last(p) \notin DOMAIN Fact /\ \A b \in R.never : ~AtTail(b, Fold(p))
        /\ \E t \in targets : Reached(R, t, Front(p))}
        \subseteq books.scanned

(* Every file below a target is in the books once for that target, unless a  *)
(* link or a junction is in between.                                         *)
BooksReconcile(R, targets, files, books) ==
    LET below == {x \in targets \X files : Under(x[1], Front(x[2]))}
        past == {x \in below : \E n \in (Len(x[1]) + 1)..(Len(x[2]) - 1) :
                    Fold(x[2])[n] \in Junctions}
    IN  /\ books.files_scanned + books.files_skipped <= Cardinality(below)
        /\ books.files_scanned + books.files_skipped >= Cardinality(below \ past)
=============================================================================
