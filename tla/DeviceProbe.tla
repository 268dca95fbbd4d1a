------------------------------ MODULE DeviceProbe ------------------------------
(***************************************************************************)
(* device_config() of src/c_config/device.rs, in the container: what the   *)
(* files below /dev can be opened for, after chown and chmod if need be,   *)
(* and which devices can be opened through a node that mknod makes.  Other *)
(* processes of the container use the same files.                          *)
(***************************************************************************)
EXTENDS Evaluation, Sequences

CONSTANTS
    Path,           \* the entries below /dev that are no directories
    Node,           \* the files they lead to
    Target,         \* which one, if the entry is a symbolic link or not
    NodeType,       \* what they are, with its number if it is a device
    Attributes,     \* what owner and mode may be to begin with
    CapSets,        \* the capabilities checkc may have
    RuleSet,        \* what drivers and the cgroup may let it do with numbers:
    Rules,          \* numbers and accesses, by name of a set of rules
    Majors, Minors, \* of the numbers that mknod is tried with, in their order
    MaxMeddling     \* bound on what others do to the files

Access == {"read", "write"}

\* The ends of the two loops, 2^12 and 2^8, and what the kernel can tell apart
\* of a major.
MajorMax == 4096
MinorMax == 256
KernelMajor == 4096

NoPath == "no path"

Number == [type : {"char", "block"}, major : Nat, minor : Nat]

\* No driver has major number 0, so a node with it can be made, not opened.
ASSUME DeviceAssumption ==
    /\ NoPath \notin Path
    /\ Target \in [Path -> Node]
    /\ NodeType \in [Node -> Number \cup [type : {"regular", "fifo"}]]
    /\ Attributes \subseteq [owner : {"checkc", "other"}, user : SUBSET Access, others : SUBSET Access]
    /\ CapSets \subseteq SUBSET {"CHOWN", "DAC_OVERRIDE", "FOWNER"}
    /\ DOMAIN Rules = RuleSet
    /\ \A rules \in RuleSet : \A r \in Rules[rules] :
        /\ r[1] \in Number /\ r[1].major < KernelMajor
        /\ r[1].major = 0 => r[2] = "mknod"
    /\ Majors \in Seq(0 .. MajorMax) /\ Minors \in Seq(0 .. MinorMax)
    /\ MaxMeddling \in Nat

VARIABLES
    caps, rules, dev_ro,    \* what checkc may do; whether /dev is read-only
    attr,           \* owner and mode of each file; Gone if it was removed
    attr0,          \* history: what they were to begin with
    meddled,        \* history: files that others have changed
    meddling,       \* how often
    probe,          \* where device_config is
    todo,           \* the entries the walk has yet to come to
    path,           \* the one that it is at
    before, after,  \* the accesses found, before and after chmod
    tried,          \* how many numbers mknod was tried with
    dev_devices, mknod_devices      \* the result

dpWorldVars == <<caps, rules, dev_ro, attr, attr0, meddled, meddling>>
dpVars == <<dpWorldVars, probe, todo, path, before, after, tried, dev_devices, mknod_devices>>

Gone == [owner |-> "nobody", user |-> {}, others |-> {}]

Here == Target[path]

DpInit ==
    /\ caps \in CapSets
    /\ rules \in RuleSet
    /\ dev_ro \in BOOLEAN
    /\ attr \in [Node -> Attributes]
    /\ attr0 = attr
    /\ meddled = {} /\ meddling = 0
    /\ probe = "walk"
    /\ todo = Path
    /\ path = NoPath
    /\ before = {} /\ after = {}
    /\ tried = 0
    /\ dev_devices = {} /\ mknod_devices = {}

Allows(id, a) == <<id, a>> \in Rules[rules]

(***************************************************************************)
(* What open, chown and chmod do.                                          *)
(***************************************************************************)
Permits(a, at) ==
    \/ "DAC_OVERRIDE" \in caps
    \/ a \in (IF at.owner = "checkc" THEN at.user ELSE at.others)

\* What checkc may change of a file.
MayChown(at) == ~dev_ro /\ at # Gone /\ ("CHOWN" \in caps \/ at.owner = "checkc")
MayChmod(at) == ~dev_ro /\ at # Gone /\ ("FOWNER" \in caps \/ at.owner = "checkc")

Opens(n, a) == attr[n] # Gone /\ Permits(a, attr[n]) /\ Allows(NodeType[n], a)

\* open() waits for somebody to open the other end of a pipe; nobody does.
Blocks(n, a) == NodeType[n].type = "fifo" /\ attr[n] # Gone /\ Permits(a, attr[n])

Chown(n) == IF MayChown(attr[n]) THEN [attr EXCEPT ![n].owner = "checkc"] ELSE attr

Chmod(n, mode) ==
    IF MayChmod(attr[n]) THEN [attr EXCEPT ![n].user = mode, ![n].others = mode] ELSE attr

(***************************************************************************)
(* parse_dev() and from_dev_file().                                        *)
(***************************************************************************)
\* Mutant of Visit: an entry whose accesses are tried is walked to again.
Visit_Again(p) ==
    /\ probe = "walk"
    /\ IF attr[Target[p]] = Gone \/ NodeType[Target[p]].type = "regular"
       THEN todo' = todo \ {p} /\ UNCHANGED <<probe, path>>
       ELSE probe' = "read" /\ path' = p /\ UNCHANGED todo
    /\ before' = {} /\ after' = {}
    /\ UNCHANGED <<attr, tried, dev_devices, mknod_devices>>

\* The walk comes to an entry.  One that leads nowhere and a regular file are
\* left out; for any other the accesses are tried.
Visit(p) ==
    /\ probe = "walk"
    /\ todo' = todo \ {p}
    /\ IF attr[Target[p]] = Gone \/ NodeType[Target[p]].type = "regular"
       THEN UNCHANGED <<probe, path>>
       ELSE probe' = "read" /\ path' = p
    /\ before' = {} /\ after' = {}
    /\ UNCHANGED <<attr, tried, dev_devices, mknod_devices>>

\* read_access() and write_access().
Try(a, then) ==
    /\ ~Blocks(Here, a)
    /\ before' = IF Opens(Here, a) THEN before \cup {a} ELSE before
    /\ probe' = then
    /\ UNCHANGED <<attr, todo, path, after, tried, dev_devices, mknod_devices>>

TryRead == probe = "read" /\ Try("read", "write")
TryWrite == probe = "write" /\ Try("write", "tried")

Take(access) ==
    /\ dev_devices' = dev_devices \cup {[file |-> Here, access |-> access]}
    /\ probe' = "walk"
    /\ path' = NoPath

\* Both succeeded, or one did not and the file becomes checkc's.
Retry ==
    /\ probe = "tried"
    /\ IF before = Access THEN Take(before) /\ UNCHANGED attr
       ELSE attr' = Chown(Here) /\ probe' = "chmod_read" /\ UNCHANGED <<path, dev_devices>>
    /\ UNCHANGED <<todo, before, after, tried, mknod_devices>>

\* 0444 if it could not be read, then 0666 if it could not be written.
ChmodFor(a, mode, then) ==
    /\ attr' = IF a \in before THEN attr ELSE Chmod(Here, mode)
    /\ probe' = then
    /\ UNCHANGED <<todo, path, before, after, tried, dev_devices, mknod_devices>>

ChmodRead == probe = "chmod_read" /\ ChmodFor("read", {"read"}, "chmod_write")
ChmodWrite == probe = "chmod_write" /\ ChmodFor("write", Access, "reread")

TryAgain(a, then) ==
    /\ ~Blocks(Here, a)
    /\ after' = IF Opens(Here, a) THEN after \cup {a} ELSE after
    /\ probe' = then
    /\ UNCHANGED <<attr, todo, path, before, tried, dev_devices, mknod_devices>>

ReadAfter == probe = "reread" /\ TryAgain("read", "rewrite")
WriteAfter == probe = "rewrite" /\ TryAgain("write", "take")

\* Mutant of Accessible: the second attempt replaces the first.
Accessible_After == after

\* What either attempt could open: the first chmod may undo the other access.
Accessible == before \cup after

TakeAfter ==
    /\ probe = "take"
    /\ Take(Accessible)
    /\ UNCHANGED <<attr, todo, before, after, tried, mknod_devices>>

(***************************************************************************)
(* mknod_brute_force().                                                    *)
(***************************************************************************)
\* The directory for the nodes is made in /dev; if that fails, so does checkc.
StartMknod ==
    /\ probe = "walk"
    /\ todo = {}
    /\ probe' = IF dev_ro THEN "err" ELSE "mknod"
    /\ UNCHANGED <<attr, todo, path, before, after, tried, dev_devices, mknod_devices>>

\* for i in 0..=major_max, for j in 0..=minor_max: the character, then the
\* block device.
Wanted(k) ==
    [type |-> IF k % 2 = 0 THEN "char" ELSE "block",
     major |-> Majors[((k \div 2) \div Len(Minors)) + 1],
     minor |-> Minors[((k \div 2) % Len(Minors)) + 1]]

Tries == 2 * Len(Majors) * Len(Minors)

\* The last major number has a bit more than the kernel's: libc refuses it, or
\* the kernel sees the bits below.
Kernel(id) == [id EXCEPT !.major = @ % KernelMajor]

\* Mutant of Worth: what could be made is recorded, also if it cannot be opened.
Worth_Made(id) == TRUE

\* The node is checkc's, with mode 0700: only the rules count.
Worth(id) == \E a \in Access : Allows(Kernel(id), a)

Mknod ==
    /\ probe = "mknod"
    /\ tried < Tries
    /\ LET id == Wanted(tried)
           made == Allows(Kernel(id), "mknod")
       IN  \/ /\ made
              /\ mknod_devices' = IF Worth(id) THEN mknod_devices \cup {id} ELSE mknod_devices
           \/ /\ ~made \/ id # Kernel(id)
              /\ UNCHANGED mknod_devices
    /\ tried' = tried + 1
    /\ UNCHANGED <<attr, probe, todo, path, before, after, dev_devices>>

\* In the end the directory is removed; if that fails, so does checkc.
AllTried ==
    /\ probe = "mknod"
    /\ tried = Tries
    /\ probe' \in {"done", "err"}
    /\ UNCHANGED <<attr, todo, path, before, after, tried, dev_devices, mknod_devices>>

Probe ==
    /\ \/ \E p \in todo : Visit(p)
       \/ TryRead \/ TryWrite \/ Retry \/ ChmodRead \/ ChmodWrite
       \/ ReadAfter \/ WriteAfter \/ TakeAfter \/ StartMknod \/ Mknod \/ AllTried
    /\ UNCHANGED <<caps, rules, dev_ro, attr0, meddled, meddling>>

\* Others change the mode of a file, or remove it, while it is looked at.
Meddle(n) ==
    /\ meddling < MaxMeddling
    /\ attr[n] # Gone
    /\ probe # "mknod"
    /\ \E at \in Attributes \cup {Gone} : at # attr[n] /\ attr' = [attr EXCEPT ![n] = at]
    /\ meddled' = meddled \cup {n}
    /\ meddling' = meddling + 1
    /\ UNCHANGED <<caps, rules, dev_ro, attr0, probe, todo, path, before, after, tried,
                   dev_devices, mknod_devices>>

DpNext == Probe \/ \E n \in Node : Meddle(n)

DpSpec == DpInit /\ [][DpNext]_dpVars

(***************************************************************************)
(* Properties.                                                             *)
(***************************************************************************)
\* Every variable has its type, and what is still tried is not yet recorded.
DpTypeOK ==
    /\ caps \in CapSets /\ rules \in RuleSet /\ dev_ro \in BOOLEAN
    /\ {attr, attr0} \subseteq
        [Node -> [owner : {"checkc", "other"}, user : SUBSET Access, others : SUBSET Access] \cup {Gone}]
    /\ meddled \subseteq Node /\ meddling \in 0 .. MaxMeddling
    /\ probe \in {"walk", "read", "write", "tried", "chmod_read", "chmod_write",
                  "reread", "rewrite", "take", "mknod", "done", "err"}
    /\ todo \subseteq Path /\ path \in (Path \ todo) \cup {NoPath}
    /\ (path # NoPath) <=> probe \notin {"walk", "mknod", "done", "err"}
    /\ before \subseteq Access /\ after \subseteq Access
    /\ tried \in 0 .. Tries
    /\ dev_devices \subseteq [file : Node, access : SUBSET Access]
    /\ mknod_devices \subseteq {Wanted(k) : k \in 0 .. tried - 1}

\* A file can be opened as it is, or once it was made checkc's and its mode
\* changed, as far as drivers and the cgroup allow.
Obtainable(n) ==
    {a \in Access :
        /\ Allows(NodeType[n], a)
        /\ Permits(a, attr0[n]) \/ MayChown(attr0[n]) \/ MayChmod(attr0[n])}

\* Each record of a file says what checkc can obtain of it, also if the file
\* was visited through several entries and is left with another owner and mode
\* by each visit, unless others change the file at the same time.
AccessObtainable ==
    \A d \in dev_devices : d.file \notin meddled => d.access = Obtainable(d.file)

(***************************************************************************)
(* The whitelists of src/config/mod.rs, of character devices.              *)
(***************************************************************************)
DEV_MAJOR_WHITELIST == 136 .. 143

DEV_WHITELIST_GENERAL ==
    {<<1, j>> : j \in {3, 5, 7, 8, 9}} \cup {<<5, 0>>, <<5, 2>>, <<4, 0>>, <<4, 1>>}
        \cup {<<10, 200>>, <<10, 183>>, <<0, 0>>}

DEV_WHITELIST_UNPRIVILEGED == {<<10, 229>>}

\* The device that the test of the evaluation sees.
AsDevice(id) ==
    [type |-> id.type,
     list |-> CASE id.type = "block" -> "none"
                [] id.major \in DEV_MAJOR_WHITELIST -> "major"
                [] <<id.major, id.minor>> \in DEV_WHITELIST_GENERAL -> "general"
                [] <<id.major, id.minor>> \in DEV_WHITELIST_UNPRIVILEGED -> "unprivileged"
                [] OTHER -> "none"]

Tried == {Wanted(k) : k \in 0 .. Tries - 1}

\* mknod_whitelist_compliance fails if and only if checkc can make a node of a
\* device that is not on the whitelist, and open it: what is reported is what
\* was opened, although the loop goes beyond the numbers there are, and of a
\* container that may make any node only what it may use counts.
MknodVerdict ==
    probe = "done" =>
        \A unprivileged \in BOOLEAN :
            NotAllowed({AsDevice(id) : id \in mknod_devices}, unprivileged) # {} <=>
                \E id \in Tried :
                    /\ NotAllowed({AsDevice(id)}, unprivileged) # {}
                    /\ Allows(id, "mknod") /\ \E a \in Access : Allows(id, a)
=============================================================================
