----------------------------- MODULE MCLeakTest -----------------------------
(* Values of the constants of LeakTest for TLC: checkc's namespace, that of  *)
(* another process of the container, one of the host and one of the          *)
(* reference container.                                                      *)
EXTENDS LeakTest, TLC

MCNs == {"own", "side", "host", "ref"}
MCPath == {"/", "/a", "/b"}
MCDir == {"croot", "hroot", "rroot", "vol", "sub", "kernel"}

Mnt(dir, ro) == [dir |-> dir, ro |-> ro, mounted |-> TRUE]
Plain(dir) == [dir |-> dir, ro |-> FALSE, mounted |-> FALSE]
Table(root, a, b) == "/" :> root @@ "/a" :> a @@ "/b" :> b

\* In the container, /a is the volume, a file, a plain directory, or a file
\* system that is not listed; /b may be the volume a second time.  The host
\* may see the volume at /a and has the container's root at /b.
MCTables ==
    {"own" :> Table(Mnt("croot", FALSE), a, b)
     @@ "side" :> Table(Mnt("croot", FALSE), c, Plain(NoDir))
     @@ "host" :> Table(Mnt("hroot", FALSE), h, Mnt("croot", FALSE))
     @@ "ref" :> Table(Mnt("rroot", FALSE), r, Plain(NoDir)) :
        a \in {Mnt("vol", FALSE), Mnt("vol", TRUE), Mnt(NoDir, FALSE), Plain("sub"),
               Mnt("hroot", FALSE)},
        b \in {Mnt("vol", FALSE), Plain(NoDir)},
        c \in {Mnt("vol", FALSE), Mnt("kernel", FALSE)},
        h \in {Mnt("vol", FALSE), Plain(NoDir)},
        r \in {Mnt("vol", TRUE), Plain(NoDir)}}
=============================================================================
