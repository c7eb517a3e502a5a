--------------------------- MODULE ManifestPaths ----------------------------
(***************************************************************************)
(* The paths a manifest embeds (src/ordvec-manifest/src/lib.rs): what      *)
(* create writes for a file, what verify demands of the text, and where it *)
(* lets the text lead.  The platform is Unix.                              *)
(*                                                                         *)
(* A location is the sequence of names from the root after every link is   *)
(* followed.  A path is [absolute, segs], the text split at its slashes;   *)
(* the empty text has no segments.  Of a name only what the rules look at  *)
(* is known.                                                               *)
(***************************************************************************)
EXTENDS Naturals, SequencesExt

CONSTANTS
  Base,     \* the location of the manifest's directory
  Slashed,  \* names that contain a backslash
  Rooted,   \* names like \\host or c:\x
  Drives    \* names like c:

ASSUME PathsAssumption == Base \in Seq(STRING) /\ Rooted \subseteq Slashed

\* is_manifest_path_absolute: a path may read as absolute on another platform.
PolicyAbsolute(path) ==
  \/ path.absolute
  \/ /\ path.segs # <<>>
     /\ \/ path.segs[1] \in Rooted
        \/ path.segs[1] \in Drives /\ Len(path.segs) > 1

\* is_canonical_manifest_path.
Canonical(path, escape) ==
  /\ path.segs # <<>>
  /\ \A i \in DOMAIN path.segs : /\ path.segs[i] \notin {"", "."} \cup Slashed
                                 /\ path.segs[i] = ".." => escape

\* What the shape checks say of a path of the manifest.
PathShape(path, escape) ==
  IF path.segs = <<>> THEN <<"path_empty">>
  ELSE IF PolicyAbsolute(path) \/ Canonical(path, escape) THEN <<>>
  ELSE <<"path_not_canonical">>

\* has_lexical_escape: some step goes above where the path started.
LexicalEscape(path) ==
  LET count(i, S) == Cardinality({j \in 1 .. i : path.segs[j] \in S})
  IN  \E i \in DOMAIN path.segs :
        count(i, {".."}) > i - count(i, {"..", ".", ""})

Beneath(at) == IsPrefix(Base, at)

\* resolve_existing_path and resolve_auxiliary_artifact_path, for the file the
\* path leads to; a file is [at, ...].  There is nothing to resolve in no path.
Resolve(path, file, none, options) ==
  IF PolicyAbsolute(path) /\ ~ options.absolute THEN "absolute_path_rejected"
  ELSE IF PolicyAbsolute(path) # path.absolute THEN "absolute_path_unresolvable"
  ELSE IF ~ path.absolute /\ ~ options.escape /\ LexicalEscape(path)
  THEN "path_escape_rejected"
  ELSE IF file = none THEN "missing"
  ELSE IF ~ options.escape /\ ~ Beneath(file.at) THEN "path_escape_rejected"
  ELSE "ok"

\* relative_path_between: up to where the locations part, and down again.  Below
\* the base that is what strip_prefix leaves.
RelativeTo(at) ==
  LET common == Len(LongestCommonPrefix({Base, at}))
  IN  [absolute |-> FALSE,
       segs |-> [i \in 1 .. Len(Base) - common |-> ".."]
                  \o SubSeq(at, common + 1, Len(at))]

\* manifest_path_for_create: on Unix every location can be reached from every
\* other.  No path is given for a file a manifest may not name.
MayEmbed(at, options) ==
  /\ Beneath(at) \/ options.escape
  /\ PolicyAbsolute(RelativeTo(at)) \/ Canonical(RelativeTo(at), options.escape)
=============================================================================
