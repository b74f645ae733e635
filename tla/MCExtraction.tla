----------------------------- MODULE MCExtraction -----------------------------
(* Two versions of a bundle whose layout changes between them: links that    *)
(* move, a directory that becomes a link, a file that becomes a link.        *)
EXTENDS Extraction

V1 == <<"v1">>
V1Lib == <<"v1", "lib">>
V2 == <<"v2">>
V2Lib == <<"v2", "lib">>
Cur == <<"cur">>
CurLib == <<"cur", "lib">>
App == <<"app">>
OutsideRoot == <<"..", "..", "etc">>
MCNames == {V1, V1Lib, V2, V2Lib, Cur, CurLib, App}

D(n)    == [name |-> n, kind |-> "dir"]
F(n, c) == [name |-> n, kind |-> "file", content |-> c]
L(n, t) == [name |-> n, kind |-> "link", target |-> t]

MCArchives == <<
    <<D(V1), F(V1Lib, "a"), L(Cur, V1), F(App, "a")>>,
    <<L(Cur, V2), F(V2Lib, "b"), L(App, CurLib)>>,
    <<F(V1Lib, "c"), F(CurLib, "d"), L(App, CurLib)>>,
    <<F(Cur, "e"), F(V1Lib, "e"), L(App, Cur)>>,
    <<D(V2), L(V2Lib, OutsideRoot), F(App, "f")>>,
    <<D(Cur), F(CurLib, "g"), F(V1, "g"), L(V2, Cur), L(App, V1)>>,
    <<D(V1), L(V2, V1), L(Cur, V2)>>,
    <<D(Cur), F(App, "h"), L(V2, App)>> >>

MCContents == {"a", "b", "c", "d", "e", "f", "g", "h"}

ZipKind    == [pack |-> "zip", layer |-> None]
PlainOf(c)   == [pack |-> "plain", layer |-> c]
TarOf(c)     == [pack |-> "tar", layer |-> c]

Asset(x, k, i, c) == [ext |-> x, kind |-> k, archive |-> i, codec |-> c]

MCAssets == {Asset("zip", None, i, None) : i \in DOMAIN MCArchives}
            \cup {Asset("tar", None, 0, None), Asset("tgz", None, 0, "gz"), Asset("tar.xz", None, 0, "xz"),
                  Asset("gz", None, 0, "gz"), Asset("xz", None, 0, "xz"), Asset("bin", None, 0, None),
                  Asset("bz2", None, 0, "bz2")}
            \cup {Asset("bin", ZipKind, 1, None), Asset("bin", ZipKind, 0, None), Asset("bin", TarOf("xz"), 0, "xz"),
                  Asset("bin", PlainOf("gz"), 0, "gz"), Asset("bin", PlainOf("xz"), 0, None),
                  Asset("bin", PlainOf("gz"), 0, None), Asset("gz", PlainOf(None), 0, "gz")}

MCFeatureSets == {{"zip", "tar", "gz"}, {"zip", "xz"}, {"tar"}, {"gz", "xz"}}
=============================================================================
