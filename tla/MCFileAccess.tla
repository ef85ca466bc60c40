---------------------------- MODULE MCFileAccess ----------------------------
(***************************************************************************)
(* Instances of FileAccess for TLC: a configured bucket with a few folders *)
(* and one that is not configured, pages of one or two entries.            *)
(***************************************************************************)
EXTENDS FileAccess, TLC

CONSTANTS main, other, r1, r2, r3, anything

\* Names: "" is 0; "a" 1, "b" 2, "c" 3; "b " (padded) 4; "b..c" 5.
MCName == 0..5
aDir == <<1>>
aMarker == <<1, 0>>
aFile == <<1, 2>>
aPadded == <<1, 4>>
aDots == <<1, 5>>
aDotsFile == <<1, 5, 2>>
abFile == <<1, 2, 3>>
bFile == <<2, 1>>
cFile == <<3, 1>>
cTop == <<3>>
MCKey == {aMarker, aFile, aPadded, aDots, aDotsFile, abFile, bFile, cFile, cTop}
MCPrefix == {<<>>, <<1>>, <<1, 2>>, <<2>>, <<3>>}
MCOdd == aPadded :> aFile @@ aDots :> NoKey @@ aDotsFile :> NoKey
MCDotted == {5}
MCPadded == {aPadded}

Row(bucket, prefix) == [bucket |-> bucket, prefix |-> prefix]
Ask(kind, bucket, path) == [kind |-> kind, bucket |-> bucket, path |-> path, needle |-> anything]

MCGrants == {Row(main, <<1>>), Row(main, <<3>>)}
MCGrantable == {Row(main, <<1>>), Row(main, <<1, 2>>), Row(other, <<>>)}
MCStore == {main} \X {aMarker, aFile, aDots, abFile, bFile, cFile}
MCPassing == {<<main, cTop>>, <<main, aFile>>, <<main, aDotsFile>>}
MCMatches == [n \in {anything} |-> MCKey]

OneRequest == {r1}
ThreeRequests == {r1, r2, r3}
RequestSymmetry == Permutations(Request)

ListCalls == {Ask("list", main, <<>>), Ask("list", main, <<1>>), Ask("list", NoBucket, <<>>)}
SearchCalls == {Ask("search", main, <<>>), Ask("search", main, <<1>>), Ask("search", main, <<2>>)}
DownloadCalls == {Ask("download", b, k) : b \in {main, NoBucket}, k \in {aFile, abFile, bFile, cTop}}
                 \cup {Ask("download", main, aPadded), Ask("download", main, aDots),
                       Ask("download", other, aFile)}
PageCalls == {Ask("list", main, <<>>), Ask("list", main, <<2>>)}
PageStore == {main} \X {aMarker, bFile, cFile}
PageGrantable == {Row(main, <<1>>)}
PagePassing == {<<main, bFile>>}
AllCalls == ListCalls \cup SearchCalls \cup DownloadCalls
=============================================================================
