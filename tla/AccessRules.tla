---------------------------- MODULE AccessRules ----------------------------
(***************************************************************************)
(* The rules that decide what of a bucket a user may list, see and         *)
(* download: AuthorizationService and utils/s3-path.ts.                    *)
(*                                                                         *)
(* A text with slashes is the sequence of the names between them, and a    *)
(* name is its place in the storage's listing order, the empty name first. *)
(* So "a/b.txt" is <<1, 2>>, the folder marker "a/" is <<1, 0>>, and the   *)
(* prefix "a/" is <<1>>: what follows the last slash of a prefix is not    *)
(* there yet.  The empty prefix, a whole bucket, is <<>>.                  *)
(*                                                                         *)
(* Prefixes reach these rules through s3PrefixSchema, which trims them,    *)
(* refuses "..", a leading "/" and a backslash, and ends them with "/":    *)
(* normalizePrefix then changes nothing.  Keys come from the storage as    *)
(* they are, so normalizeKey does change some: these are the odd keys.     *)
(***************************************************************************)
EXTENDS Integers, Sequences

CONSTANTS
    Bucket,
    AllowedBuckets,   \* config.allowedBuckets
    Name,             \* the names in keys, as naturals
    Key,              \* keys of objects
    Prefix,           \* prefixes of permissions and listings
    Odd,              \* odd keys, with what normalizeKey makes of them
    Padded,           \* odd keys that differ by blanks at an end only
    NoKey             \* what remains of a key that normalizeKey refuses

Empty == 0

ASSUME NameAssumption == Name \subseteq Nat /\ Empty \in Name

ASSUME KeyAssumption ==
    /\ Key \subseteq Seq(Name) \ {<<>>}
    /\ Prefix \subseteq Seq(Name) /\ <<>> \in Prefix
    /\ NoKey \notin Key

ASSUME OddAssumption ==
    /\ DOMAIN Odd \subseteq Key
    /\ \A k \in DOMAIN Odd : Odd[k] \in Key \cup {NoKey}
    /\ Padded \subseteq DOMAIN Odd

ASSUME BucketAssumption == AllowedBuckets \subseteq Bucket /\ AllowedBuckets # {}

-----------------------------------------------------------------------------
(* Texts.                                                                  *)

\* t begins with the prefix p.
Under(t, p) == Len(p) <= Len(t) /\ \A i \in 1..Len(p) : t[i] = p[i]

Comparable(p, q) == Under(p, q) \/ Under(q, p)

\* normalizeKey, as often as the code applies it.
Sees(k) == IF k \in DOMAIN Odd THEN Odd[k] ELSE k

\* s3KeySchema: blanks are trimmed, whatever else is odd is refused.
Parsed(k) == CASE k \in Padded -> Odd[k]
               [] k \in DOMAIN Odd \ Padded -> NoKey
               [] OTHER -> k

-----------------------------------------------------------------------------
(* Permissions.  Rows are records [bucket, prefix].                        *)

Permission == [bucket: Bucket, prefix: Prefix]

\* Objects: a key within a prefix lies below it, or is the prefix without
\* its last slash.
CanAccess(rows, bucket, key) ==
    /\ Sees(key) # NoKey
    /\ \E p \in rows : p.bucket = bucket /\ Under(Sees(key), p.prefix)

\* Folders: those below a permission, and those on the way to one.
CanList(rows, bucket, prefix) ==
    \E p \in rows : p.bucket = bucket /\ Comparable(prefix, p.prefix)

-----------------------------------------------------------------------------
(* Listings.  ListObjectsV2 with a delimiter answers with entries: keys    *)
(* directly below the prefix, and for all other keys below it the text up  *)
(* to the next slash.                                                      *)

Entry(prefix, key) ==
    IF Len(key) = Len(prefix) + 1 THEN key
    ELSE [i \in 1..(Len(prefix) + 2) |-> IF i = Len(prefix) + 2 THEN Empty ELSE key[i]]

Below(prefix, key) == Under(key, prefix) /\ Len(key) > Len(prefix)

\* The prefix itself, when an object marks the folder.
Marker(prefix) == Append(prefix, Empty)

IsFolder(prefix, entry) == Len(entry) = Len(prefix) + 2

\* The prefix that a folder's entry stands for.
FolderOf(entry) == SubSeq(entry, 1, Len(entry) - 1)

(* Mutant of Shown: files directly below a listed folder are not filtered. *)
MutantShown(rows, bucket, prefix, entry) ==
    IF IsFolder(prefix, entry)
    THEN \E p \in rows : p.bucket = bucket /\ Comparable(FolderOf(entry), p.prefix)
    ELSE entry # Marker(prefix)

\* filterListResultForPermissions, for one entry of a listing of "prefix".
Shown(rows, bucket, prefix, entry) ==
    IF IsFolder(prefix, entry)
    THEN \E p \in rows : p.bucket = bucket /\ Comparable(FolderOf(entry), p.prefix)
    ELSE entry # Marker(prefix) /\ CanAccess(rows, bucket, entry)

\* The prefixes a search below "prefix" goes through: the permissions that
\* reach it, each no higher than the prefix.
SearchRoots(rows, bucket, prefix) ==
    LET near == {p \in rows : p.bucket = bucket /\ Comparable(p.prefix, prefix)}
    IN  IF near = {} THEN {prefix}
        ELSE {IF Under(prefix, p.prefix) THEN prefix ELSE p.prefix : p \in near}
=============================================================================
