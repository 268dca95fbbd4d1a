----------------------------- MODULE MCDeviceProbe -----------------------------
(* Values of the constants of DeviceProbe for TLC: two entries of one device, *)
(* one of them a link, and a pipe.                                          *)
EXTENDS DeviceProbe, TLC

Num(t, i, j) == [type |-> t, major |-> i, minor |-> j]
Tty == Num("char", 136, 0)

MCTarget == "tty" :> "tty" @@ "console" :> "tty" @@ "other" :> "other"
MCNodeType == "tty" :> Tty @@ "other" :> [type |-> "fifo"]

MCAttributes ==
    {[owner |-> "other", user |-> Access, others |-> v] : v \in {{}, {"write"}, {"read"}}}
        \cup {[owner |-> "checkc", user |-> u, others |-> {}] : u \in {{}, {"write"}, Access}}

MCCapSets == {{}, {"CHOWN"}, {"DAC_OVERRIDE", "CHOWN", "FOWNER"}}

\* The ends of the ranges, and what the whitelists tell apart.
MCMajors == <<0, 1, 10, 136, 4096>>
MCMinors == <<0, 3, 229, 256>>

\* A container may make every node, or only the one of overlayfs; and open the
\* terminal and what is on a whitelist, the terminal in part, /dev/fuse, a
\* block device, or nothing.
MCRules ==
    LET All == [type : {"char", "block"}, major : {0, 1, 10, 136}, minor : {0, 3, 229, 256}]
        Make == All \X {"mknod"}
        Open(id) == {id} \X Access
    IN  "none" :> {<<Num("char", 0, 0), "mknod">>}
        @@ "use" :> Open(Tty) \cup Open(Num("char", 1, 3)) \cup Open(Num("block", 10, 256))
        @@ "default" :> Make \cup Open(Tty) \cup Open(Num("char", 1, 3))
        @@ "fuse" :> Make \cup {<<Tty, "read">>} \cup Open(Num("char", 10, 229))
        @@ "block" :> Make \cup {<<Tty, "write">>} \cup Open(Num("block", 10, 256))
=============================================================================
