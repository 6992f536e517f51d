---------------------------- MODULE MCSourcePlugins ----------------------------
(***************************************************************************)
(* Small sources for SourcePlugins.                                        *)
(***************************************************************************)
EXTENDS SourcePlugins, TLC

CONSTANTS top, sub, plain, odd, dot, friend, self, grp, one, d1, d2, d3, v1, v2, kept, dropped, added

\* One folder below the root; a file of a known kind in the root, one of an
\* unknown kind in the folder, and a dotfile.
FolderDef   == {top, sub}
PathToDef   == top :> {top} @@ sub :> {top, sub}
FileDef     == {plain, odd, dot}
FolderOfDef == plain :> top @@ odd :> sub @@ dot :> sub

\* With and without recursion and patterns; the patterns ask for the two
\* files the extensions would not admit, and once exclude one of them.
ConfigDef ==
    {[recursive |-> r, globbed |-> g, include |-> IF g THEN {odd, dot} ELSE {}, exclude |-> {}] :
        r \in BOOLEAN, g \in BOOLEAN}
    \cup {[recursive |-> TRUE, globbed |-> TRUE, include |-> {odd, dot}, exclude |-> {dot}]}

SearchedDocsDef == {1, 2, 5}

\* Two messages with a friend on one day, a note to self on the same day.
ConvDef   == {friend, self}
ConvOfDef == <<friend, friend, self>>
DayOfDef  == <<1, 1, 1>>

\* Two messages in a group and one in a 1:1 chat, on one day.
ChatOfNoteDef == <<grp, grp, one>>

\* A file, a document Drive will not export, and a file too large to download.
DriveItemDef == {d1, d2, d3}
KindOfDef    == d1 :> "regular" @@ d2 :> "outgrown" @@ d3 :> "large"

\* Two releases with one plugin in common.
BinaryDef    == {kept, dropped, added}
PublishesDef == v1 :> {kept, dropped} @@ v2 :> {kept, added}
=============================================================================
