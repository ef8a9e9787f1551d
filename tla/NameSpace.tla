----------------------------- MODULE NameSpace -----------------------------
(***************************************************************************)
(* What vsfs.py promises its user: a tree of directories, names that are   *)
(* links to files, and a file that lives, with what was written to it, as  *)
(* long as it has a name.  A path is a sequence of names, <<>> the root.   *)
(***************************************************************************)
EXTENDS Sequences, SequencesExt, Functions

VARIABLES
  dirs,      \* paths of the directories
  files,     \* path -> file
  contents   \* file -> what was appended to it, "" before that

vars == <<dirs, files, contents>>

Init == dirs = {<<>>} /\ files = << >> /\ contents = << >>

\* A table with an entry more.
With(f, x, y) == [z \in DOMAIN f \cup {x} |-> IF z = x THEN y ELSE f[z]]

New(path) ==
  /\ path # <<>> /\ Front(path) \in dirs
  /\ path \notin dirs \cup DOMAIN files

Mkdir(path) ==
  /\ New(path)
  /\ dirs' = dirs \cup {path}
  /\ UNCHANGED <<files, contents>>

Creat(path, file) ==
  /\ New(path) /\ file \notin DOMAIN contents
  /\ files' = With(files, path, file)
  /\ contents' = With(contents, file, "")
  /\ UNCHANGED dirs

Link(target, path) ==
  /\ New(path)
  /\ files' = With(files, path, files[target])
  /\ UNCHANGED <<dirs, contents>>

\* A file goes with its last name.
Unlink(path) ==
  /\ files' = Restrict(files, DOMAIN files \ {path})
  /\ contents' = Restrict(contents, Range(files'))
  /\ UNCHANGED dirs

Write(path, char) ==
  /\ contents[files[path]] = ""
  /\ contents' = [contents EXCEPT ![files[path]] = char]
  /\ UNCHANGED <<dirs, files>>

\* For the paths, files and characters that there may be.
Next(Paths, Files, Chars) ==
  \/ \E path \in Paths :
       \/ Mkdir(path)
       \/ \E file \in Files : Creat(path, file)
       \/ \E target \in DOMAIN files : Link(target, path)
  \/ \E path \in DOMAIN files :
       \/ Unlink(path)
       \/ \E char \in Chars : Write(path, char)

=============================================================================
