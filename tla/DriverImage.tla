----------------------------- MODULE DriverImage -----------------------------
(***************************************************************************)
(* Packaging a policy for alpasim: alpasim.py's build contexts and wizard  *)
(* configs, as cli.py's `alpasim build-image` and `alpasim wizard-config`  *)
(* make them, and cli.py's `serve` in the containers started from them.    *)
(*                                                                         *)
(* Commands run as processes of their own on one machine and share its     *)
(* files: a build lays its context out step by step in a directory another *)
(* may be using.  Docker is modelled from how alpasim.py uses it: a build  *)
(* reads the whole context at once, and tags the image when it is done.    *)
(***************************************************************************)
EXTENDS Integers, Sequences, FiniteSets, SequencesExt, TLC

CONSTANTS
    Builds,     \* runs of build-image
    Wizards,    \* runs of wizard-config
    Orders,     \* what a build may be asked for
    Configs,    \* what a wizard config may be asked for
    Tags, Dirs, Names,
    ContextDir, \* default_context_dir: tags may share one
    Contents,   \* the policies a requirement's package has, by its name
    Takes,      \* the keyword arguments a policy takes
    None

\* A policy is [module, attribute], with module None for one of POLICY_REGISTRY;
\* its arguments are a function on their keys, or None when one does not parse.

\* A requirement is on PyPI, or a local directory or wheel.
Requirements == [kind : {"index", "project", "wheel"}, name : DOMAIN Contents, index : Nat]

\* A local package goes to packages/<its place in the list>.
Numbered(o) ==
    {[r EXCEPT !.index = i] : r \in {o.self} \cup Range(o.install), i \in 1 .. Len(o.install) + 1}

ASSUME ImageAssumption ==
    /\ Builds \cap Wizards = {}
    /\ \A o \in Orders :
          /\ o.self \in Requirements /\ o.install \in Seq(Requirements)
          /\ (IF o.dir = None THEN ContextDir[o.tag] ELSE o.dir) \in Dirs
          /\ \A S \in SUBSET Numbered(o) : S # None
    /\ \A c \in Configs : c # None /\ c.name \in Names
    /\ \A n \in DOMAIN Contents : Contents[n] \subseteq DOMAIN Takes

VARIABLES
    packages,   \* of each directory: what packages/ holds, or None
    dockerfile, \* of each directory, or None: not there, or left empty
    images,     \* by tag
    driver,     \* by name: the config driver/<name>.yaml was written from, or None
    service,    \* by name: that of driver/<name>_service.yaml, or None
    served,     \* what the last container served, or failed to
    \* commands
    pc, order, at,
    requirements, \* what a build has laid out so far
    sent,         \* the context docker read
    beside        \* history: whether another wrote the same files meanwhile

files == <<packages, dockerfile, driver, service>>
commands == <<pc, order, at, requirements, sent, beside>>
vars == <<files, images, served, commands>>

Commands == Builds \cup Wizards

Init ==
    /\ packages = [d \in Dirs |-> None] /\ dockerfile = [d \in Dirs |-> None]
    /\ images = [t \in Tags |-> None]
    /\ driver = [n \in Names |-> None] /\ service = [n \in Names |-> None]
    /\ served = None
    /\ pc = [c \in Commands |-> "none"] /\ order = [c \in Commands |-> None]
    /\ at = [c \in Commands |-> 1]
    /\ requirements = [c \in Commands |-> <<>>]
    /\ sent = [c \in Commands |-> None]
    /\ beside = [c \in Commands |-> FALSE]

GoTo(c, place) == pc' = [pc EXCEPT ![c] = place]

Ends == {"built", "written", "failed", "usage", "crashed"}

-----------------------------------------------------------------------------
(* build-image                                                             *)

Dir(b) == IF order[b].dir = None THEN ContextDir[order[b].tag] ELSE order[b].dir

Working(d) == {b \in Builds : pc[b] \notin {"none"} \cup Ends /\ Dir(b) = d}

\* A build of an image ends here when docker is not on PATH.
StartBuild(b) ==
    /\ pc[b] = "none"
    /\ \E o \in Orders :
          /\ order' = [order EXCEPT ![b] = o]
          /\ \/ o.args # None /\ GoTo(b, "clearing")
             \/ (o.args = None \/ o.build) /\ GoTo(b, "usage")
    /\ beside' = [c \in Commands |->
                    \/ beside[c]
                    \/ pc'[b] = "clearing" /\ \/ c \in Working(Dir(b)')
                                              \/ c = b /\ Working(Dir(b)') # {}]
    /\ UNCHANGED <<files, images, served, at, requirements, sent>>

\* rmtree, if there is anything; it may stop on the way, at a file that another build
\* has removed, say.
Clear(b) ==
    /\ pc[b] = "clearing"
    /\ \/ /\ packages' = [packages EXCEPT ![Dir(b)] = None]
          /\ GoTo(b, "making")
       \/ /\ packages[Dir(b)] # None
          /\ \E left \in SUBSET packages[Dir(b)] :
                packages' = [packages EXCEPT ![Dir(b)] = left]
          /\ GoTo(b, "crashed")
    /\ UNCHANGED <<dockerfile, driver, service, images, served,
                   order, at, requirements, sent, beside>>

\* mkdir raises when another build has made the directory meanwhile, or of its own accord.
MakePackages(b) ==
    /\ pc[b] = "making"
    /\ \/ /\ packages[Dir(b)] = None
          /\ packages' = [packages EXCEPT ![Dir(b)] = {}]
          /\ GoTo(b, "copying")
       \/ /\ GoTo(b, "crashed")
          /\ UNCHANGED packages
    /\ UNCHANGED <<dockerfile, driver, service, images, served,
                   order, at, requirements, sent, beside>>

\* This package first, then the policy's requirements.
Wanted(b) == <<order[b].self>> \o order[b].install

Local(r) == r.kind \in {"project", "wheel"}

\* A local package is known by its place in the list and its name.
Laid(b, i) == IF Local(Wanted(b)[i]) THEN [Wanted(b)[i] EXCEPT !.index = i] ELSE Wanted(b)[i]

\* copytree and mkdir raise when the target is there; mkdir, unlike copytree, also
\* when packages/ is gone; and a copy may fail half way.
Copy(b) ==
    /\ pc[b] = "copying" /\ at[b] <= Len(Wanted(b))
    /\ LET r == Laid(b, at[b])
           there == packages[Dir(b)]
           kept == IF there = None THEN {} ELSE there
       IN  \/ /\ ~Local(r) \/ (r \notin kept /\ (there # None \/ r.kind = "project"))
              /\ packages' = [packages EXCEPT ![Dir(b)] =
                                IF Local(r) THEN kept \cup {r} ELSE there]
              /\ requirements' = [requirements EXCEPT ![b] = Append(@, r)]
              /\ at' = [at EXCEPT ![b] = @ + 1]
              /\ UNCHANGED pc
           \/ /\ Local(r)
              /\ packages' = [packages EXCEPT ![Dir(b)] =
                                IF there = None /\ r.kind = "wheel" THEN None ELSE kept \cup {r}]
              /\ GoTo(b, IF there = None /\ r.kind = "wheel" /\ order[b].build
                         THEN "usage" ELSE "crashed")
              /\ UNCHANGED <<requirements, at>>
    /\ UNCHANGED <<dockerfile, driver, service, images, served, order, sent, beside>>

\* Seeded bug: a Dockerfile that is there is taken for this build's.
BugRendered(b) ==
    IF dockerfile[Dir(b)] # None
    THEN dockerfile[Dir(b)]
    ELSE [policy |-> order[b].policy, args |-> order[b].args,
          requirements |-> requirements[b], check |-> order[b].check]

\* render_dockerfile
Rendered(b) ==
    [policy |-> order[b].policy, args |-> order[b].args,
     requirements |-> requirements[b], check |-> order[b].check]

\* write_text empties a file before it writes the text at once; whatever stops it,
\* a full disk or a signal, leaves the file as it was or empty.
Torn(table, key) == {table, [table EXCEPT ![key] = None]}

WriteDockerfile(b) ==
    /\ pc[b] = "copying" /\ at[b] > Len(Wanted(b))
    /\ \/ /\ dockerfile' = [dockerfile EXCEPT ![Dir(b)] = Rendered(b)]
          /\ GoTo(b, IF order[b].build THEN "sending" ELSE "written")
       \/ /\ dockerfile' \in Torn(dockerfile, Dir(b))
          /\ GoTo(b, "crashed")
    /\ UNCHANGED <<packages, driver, service, images, served,
                   order, at, requirements, sent, beside>>

Send(b) ==
    /\ pc[b] = "sending"
    /\ sent' = [sent EXCEPT ![b] = [packages |-> packages[Dir(b)], file |-> dockerfile[Dir(b)]]]
    /\ GoTo(b, "building")
    /\ UNCHANGED <<files, images, served, order, at, requirements, beside>>

Installed(reqs) == UNION {Contents[r.name] : r \in Range(reqs)}

\* Seeded bug: the policy's module is imported, its attribute not looked up.
BugChecks(p, reqs) ==
    p.module = None \/ \E q \in Installed(reqs) : q.module = p.module

\* The Dockerfile's last check, for a policy named module:attribute.
Checks(p, reqs) == p.module = None \/ p \in Installed(reqs)

Succeeds(b) ==
    LET f == sent[b].file
        here == sent[b].packages
    IN  /\ here # None /\ f # None
        /\ {r \in Range(f.requirements) : Local(r)} \subseteq here
        /\ f.check => Checks(f.policy, f.requirements)

\* docker build fails of its own accord, too: a name PyPI does not have, say.
Build(b) ==
    /\ pc[b] = "building"
    /\ \/ /\ Succeeds(b)
          /\ images' = [images EXCEPT ![order[b].tag] =
                          [by |-> b, file |-> sent[b].file, packages |-> sent[b].packages]]
          /\ GoTo(b, "built")
       \/ GoTo(b, "failed") /\ UNCHANGED images
    /\ UNCHANGED <<files, served, order, at, requirements, sent, beside>>

-----------------------------------------------------------------------------
(* wizard-config                                                           *)

\* WizardDriverConfig.files raises, and so does the parsing of the arguments.
Valid(c) == c.args # None /\ c.plainName /\ c.pinholes \subseteq c.cameras

\* Seeded bug: the driver's file is written before the cameras are looked at.
BugWrites(c) == c.args # None /\ c.plainName

\* The files are rendered before the first is written.
Writes(c) == Valid(c)

Writing(n) == {w \in Wizards : pc[w] = "halfway" /\ order[w].name = n}

StartConfig(w) ==
    /\ pc[w] = "none"
    /\ \E c \in Configs :
          /\ order' = [order EXCEPT ![w] = c]
          /\ \/ /\ Writes(c)
                /\ driver' = [driver EXCEPT ![c.name] = c]
                /\ GoTo(w, "halfway")
             \/ /\ Writes(c)
                /\ driver' \in Torn(driver, c.name)
                /\ GoTo(w, "crashed")
             \/ ~Writes(c) /\ GoTo(w, "usage") /\ UNCHANGED driver
    /\ beside' = [c \in Commands |->
                    \/ beside[c]
                    \/ pc'[w] # "usage" /\ \/ c \in Writing(order'[w].name)
                                           \/ c = w /\ Writing(order'[w].name) # {}]
    /\ UNCHANGED <<packages, dockerfile, service, images, served, at, requirements, sent>>

EndConfig(w) ==
    /\ pc[w] = "halfway"
    /\ \/ /\ Valid(order[w])
          /\ service' = [service EXCEPT ![order[w].name] = order[w]]
          /\ GoTo(w, "written")
       \/ /\ Valid(order[w])
          /\ service' \in Torn(service, order[w].name)
          /\ GoTo(w, "crashed")
       \/ ~Valid(order[w]) /\ GoTo(w, "usage") /\ UNCHANGED service
    /\ UNCHANGED <<packages, dockerfile, driver, images, served,
                   order, at, requirements, sent, beside>>

-----------------------------------------------------------------------------
(* serve, in a container                                                   *)

\* Run by itself, an image serves its defaults.
Plain == [policy |-> None, args |-> <<>>, environment |-> None]

\* CARLA_DRIVER_INTERFACE_POLICY in the container
Environment(image, c) == IF c.environment = None THEN image.file.policy ELSE c.environment

Policy(image, c) == IF c.policy = None THEN Environment(image, c) ELSE c.policy

\* Seeded bug: the baked arguments go to whatever policy is served.
BugBaked(image, c) == image.file.args

\* An image's baked-in arguments belong to its baked-in policy only.
Baked(image, c) ==
    IF Policy(image, c) = Environment(image, c) THEN image.file.args ELSE <<>>

\* The command line's arguments over the image's.
Arguments(image, c) ==
    LET baked == Baked(image, c)
    IN  [k \in DOMAIN c.args \cup DOMAIN baked |->
            IF k \in DOMAIN c.args THEN c.args[k] ELSE baked[k]]

\* load_policy
Loads(p, args, reqs) ==
    /\ p.module = None \/ p \in Installed(reqs)
    /\ p \in DOMAIN Takes /\ DOMAIN args \subseteq Takes[p]

Serve(image, c) ==
    served' = [image |-> image, config |-> c, policy |-> Policy(image, c),
               args |-> Arguments(image, c),
               loads |-> Loads(Policy(image, c), Arguments(image, c), image.file.requirements)]

Run ==
    /\ \E t \in Tags :
          /\ images[t] # None
          /\ \/ Serve(images[t], Plain)
             \/ \E n \in Names : /\ driver[n] # None /\ service[n] # None
                                 /\ service[n].image = t /\ Serve(images[t], service[n])
    /\ UNCHANGED <<files, images, commands>>

-----------------------------------------------------------------------------
Finished ==
    /\ \A c \in Commands : pc[c] \in Ends
    /\ UNCHANGED vars

Next ==
    \/ \E b \in Builds : \/ StartBuild(b) \/ Clear(b) \/ MakePackages(b) \/ Copy(b)
                         \/ WriteDockerfile(b) \/ Send(b) \/ Build(b)
    \/ \E w \in Wizards : StartConfig(w) \/ EndConfig(w)
    \/ Run \/ Finished

Spec == Init /\ [][Next]_vars

-----------------------------------------------------------------------------
(* Properties                                                              *)

\* An image is what its build was asked for -- the policy, its arguments, and the
\* local packages, none left over from an earlier build -- unless another build
\* used the directory at the same time.
ImageOfItsOrder ==
    \A t \in Tags :
        images[t] # None /\ ~beside[images[t].by] =>
            LET b == images[t].by IN
            /\ images[t].file.policy = order[b].policy
            /\ images[t].file.args = order[b].args
            /\ images[t].file.requirements = [i \in DOMAIN Wanted(b) |-> Laid(b, i)]
            /\ images[t].packages = {r \in Range(images[t].file.requirements) : Local(r)}

\* cli.py:215: a served policy gets the arguments of its own command line over those
\* baked for it, and never those baked for another, unless the environment of the
\* container gives the image another policy.
ArgsOfItsPolicy ==
    served # None /\ served.config.environment = None =>
        LET baked == served.image.file IN
        /\ \A k \in DOMAIN served.config.args : served.args[k] = served.config.args[k]
        /\ \A k \in DOMAIN served.args \ DOMAIN served.config.args :
              /\ served.policy = baked.policy
              /\ k \in DOMAIN baked.args /\ served.args[k] = baked.args[k]

\* alpasim.py:118: a misspelt module or class fails the build rather than the first
\* rollout, whoever shared the build's directory: an image that checks its policy
\* loads it.
CheckedPolicyLoads ==
    served # None /\ served.config = Plain =>
        LET f == served.image.file IN
        f.check /\ f.policy.module # None /\ DOMAIN f.args \subseteq Takes[f.policy]
            => served.loads

\* What a config that stopped while it wrote leaves: its driver's file beside the
\* service file of another, or a file that is empty.
HalfWritten(w) ==
    LET n == order[w].name
    IN  /\ pc[w] = "crashed"
        /\ driver[n] = order[w] \/ driver[n] = None \/ service[n] = None

\* A config that is refused leaves the files of its name as they were, and one that is
\* written replaces both, also what an earlier one left half written: they belong
\* together unless one is being written, has stopped in between, or another was
\* written at the same time.
ConfigsPaired ==
    \A n \in Names :
        driver[n] # service[n] =>
            \E w \in Wizards : /\ order[w] # None /\ order[w].name = n
                               /\ pc[w] = "halfway" \/ beside[w] \/ HalfWritten(w)
=============================================================================
