---------------------------- MODULE SkillInstall ----------------------------
(***************************************************************************)
(* The installation of skills (skill_installer.py), as the skill tool of an  *)
(* agent (tools/skill.py) and the command /skill install call it, and the    *)
(* library of the skills a process has found (skills.py).                    *)
(*                                                                         *)
(* The terminal and the worker processes install into the same directory,     *)
(* .agents/skills.  An installer looks whether the destinations exist, then   *)
(* downloads, and then copies directory by directory, file by file; nothing  *)
(* but the creation of a directory keeps two installers apart.               *)
(*                                                                         *)
(* The name of a skill's directory is the last part of its path; its title    *)
(* is the name its SKILL.md gives.  Names and titles are numbers, sorted as   *)
(* numbers.  The skills that come with the program and other destinations     *)
(* than .agents/skills are left out.                                         *)
(***************************************************************************)
EXTENDS Integers, FiniteSets, Sequences, SequencesExt

CONSTANTS
    Installers,      \* the processes that install skills
    Skills,          \* paths of skills in repositories
    NameOf, TitleOf, \* [Skills -> Nat]: a skill's directory, and its title
    MaxFiles,        \* max_files
    MaxInstalls,     \* bound: calls
    CopiesMayFail    \* whether the disk may refuse a file

SKILL == "SKILL.md"
SkillFiles == {SKILL, "extra"}

\* What a path of a repository may hold: its files, and whether one of them is a link.
Content(files, link) == [files |-> files, link |-> link]
Contents == {Content(files, FALSE) : files \in SUBSET SkillFiles} \union {Content({SKILL}, TRUE)}

VARIABLES
    dirs,      \* the directories of .agents/skills: the skill each was made for, and its
               \* files, each with the call that wrote it
    library,   \* the directories each process has found skills in, with their titles
    at,        \* where each process is
    job,       \* the call it works on
    answer,    \* what its last call has answered
    calls      \* calls so far

vars == <<dirs, library, at, job, answer, calls>>

\* A call: its number and its paths; those that are to be installed; what the archive
\* holds there; the index of the path a loop is at, or the source that is tried; the
\* files of this path still to be copied, and whether one could not be.
NoJob == [number |-> 0, paths |-> <<>>, missing |-> <<>>, content |-> <<>>,
          pos |-> 0, left |-> {}, broken |-> FALSE]

Init ==
    /\ dirs = <<>> /\ library = [i \in Installers |-> <<>>]
    /\ at = [i \in Installers |-> "idle"] /\ job = [i \in Installers |-> NoJob]
    /\ answer = [i \in Installers |-> "none"] /\ calls = 0

---------------------------------------------------------------------------
(* The library *)

FilesIn(n) == {w.file : w \in dirs[n].written}

\* _discover_skills: directories with a SKILL.md, in the order of their names; of two
\* that have the same title the first one counts.
Found == {n \in DOMAIN dirs : SKILL \in FilesIn(n)}
TitleIn(n) == TitleOf[dirs[n].skill]
Discovered ==
    Restrict([n \in Found |-> TitleIn(n)],
             {n \in Found : \A m \in Found : m < n => TitleIn(m) # TitleIn(n)})

\* load: the skill with this title, or else the one in the directory of this name.
Loads(skills, k) ==
    IF k \in Range(skills) THEN {n \in DOMAIN skills : skills[n] = k}
                           ELSE DOMAIN skills \intersect {k}

---------------------------------------------------------------------------
(* A call of the tool or of the command *)

GoTo(i, place) == at' = [at EXCEPT ![i] = place]
Path(i) == job[i].missing[job[i].pos]

End(i, result) ==
    /\ GoTo(i, "idle") /\ answer' = [answer EXCEPT ![i] = result]
    /\ IF result = "installed" THEN UNCHANGED job ELSE job' = [job EXCEPT ![i] = NoJob]

\* SkillInstallError, which the tool and the command turn into an answer, or an
\* exception that the registry of the tools does.
Fail(i) == End(i, "error") /\ UNCHANGED <<dirs, library, calls>>

\* The loop goes on with the next of these paths, or what follows it begins.
Advance(i, paths, place, next) ==
    LET last == job[i].pos = Len(paths)
    IN  /\ job' = [job EXCEPT ![i].pos = IF last THEN 1 ELSE @ + 1]
        /\ GoTo(i, IF last THEN next ELSE place)
        /\ UNCHANGED <<dirs, library, answer, calls>>

\* /skill install takes the URL of one skill and goes straight to the installer.  With
\* approval mode suggest the tool asks first, and may be denied.
ByTool(i) ==
    /\ \E p, q \in Skills : \E paths \in {<<p>>, <<p, q>>} :
         job' = [job EXCEPT ![i] = [NoJob EXCEPT !.number = calls + 1, !.paths = paths, !.pos = 1]]
    /\ GoTo(i, "look") /\ answer' = [answer EXCEPT ![i] = "none"]

ByCommand(i) ==
    /\ \E p \in Skills :
         job' = [job EXCEPT ![i] = [NoJob EXCEPT !.number = calls + 1, !.missing = <<p>>, !.pos = 1]]
    /\ GoTo(i, "check") /\ answer' = [answer EXCEPT ![i] = "none"]

Call(i) ==
    /\ at[i] = "idle" /\ calls < MaxInstalls
    /\ calls' = calls + 1
    /\ ByTool(i) \/ ByCommand(i) \/ End(i, "denied")
    /\ UNCHANGED <<dirs, library>>

\* _install: what has a SKILL.md is installed already, and left alone; another
\* directory in the way is an error.
Look(i) ==
    /\ at[i] = "look"
    /\ LET paths == job[i].paths
           p == paths[job[i].pos]
           found == NameOf[p] \in DOMAIN dirs
           todo == IF found THEN job[i].missing ELSE Append(job[i].missing, p)
           last == job[i].pos = Len(paths)
       IN  IF found /\ SKILL \notin FilesIn(NameOf[p])
           THEN Fail(i)
           ELSE /\ job' = [job EXCEPT ![i].missing = todo, ![i].pos = IF last THEN 1 ELSE @ + 1]
                /\ GoTo(i, IF ~last THEN "look" ELSE IF todo = <<>> THEN "refresh" ELSE "check")
                /\ UNCHANGED <<dirs, library, answer, calls>>

---------------------------------------------------------------------------
(* The installer *)

\* No destination may exist.
Check(i) ==
    /\ at[i] = "check"
    /\ IF NameOf[Path(i)] \in DOMAIN dirs THEN Fail(i)
       ELSE Advance(i, job[i].missing, "check", "fetch")

\* _prepare_repo: the archive, or else a sparse checkout from either address.
Sources == <<"zip", "https", "ssh">>

Fetch(i) ==
    /\ at[i] = "fetch"
    /\ \/ job' = [job EXCEPT ![i].pos = 1] /\ GoTo(i, "plan")
          /\ UNCHANGED <<dirs, library, answer, calls>>
       \/ IF job[i].pos = Len(Sources) THEN Fail(i)
          ELSE Advance(i, Sources, "fetch", "fetch")

\* _build_copy_plans: every path is a skill without links, and they are not too many
\* files together.
Acceptable(paths, content) ==
    /\ \A p \in Range(paths) : SKILL \in content[p].files /\ ~content[p].link
    /\ LET copies == {c \in (DOMAIN paths) \X SkillFiles : c[2] \in content[paths[c[1]]].files}
       IN Cardinality(copies) <= MaxFiles

Plan(i) ==
    /\ at[i] = "plan"
    /\ \E content \in [Range(job[i].missing) -> Contents] :
         IF ~Acceptable(job[i].missing, content) THEN Fail(i)
         ELSE /\ job' = [job EXCEPT ![i].content = content]
              /\ GoTo(i, "make") /\ UNCHANGED <<dirs, library, answer, calls>>

\* A mutant: a directory that exists is used (dirs_exist_ok).
MayMakeAny(n) == TRUE

\* shutil.copytree creates the directory, and raises if it exists.
MayMake(n) == n \notin DOMAIN dirs

MakeDirectory(i) ==
    /\ at[i] = "make"
    /\ LET p == Path(i)
       IN  IF ~MayMake(NameOf[p]) THEN Fail(i)
           ELSE /\ dirs' = [n \in DOMAIN dirs \union {NameOf[p]} |->
                            IF n \in DOMAIN dirs THEN dirs[n] ELSE [skill |-> p, written |-> {}]]
                /\ job' = [job EXCEPT ![i].left = job[i].content[p].files, ![i].broken = FALSE]
                /\ GoTo(i, "copy") /\ UNCHANGED <<library, answer, calls>>

\* It copies what it can, in any order, and raises at the end for what it could not.
CopyFile(i) ==
    /\ at[i] = "copy"
    /\ \E f \in job[i].left :
         \/ /\ dirs' = [dirs EXCEPT ![NameOf[Path(i)]].written =
                            {w \in @ : w.file # f} \union {[file |-> f, call |-> job[i].number]}]
            /\ job' = [job EXCEPT ![i].left = @ \ {f}]
         \/ /\ CopiesMayFail
            /\ job' = [job EXCEPT ![i].left = @ \ {f}, ![i].broken = TRUE] /\ UNCHANGED dirs
    /\ UNCHANGED <<library, at, answer, calls>>

CopyDone(i) ==
    /\ at[i] = "copy" /\ job[i].left = {}
    /\ IF job[i].broken THEN Fail(i) ELSE Advance(i, job[i].missing, "make", "refresh")

\* The library is read again, and the call is answered.
Refresh(i) ==
    /\ at[i] = "refresh"
    /\ library' = [library EXCEPT ![i] = Discovered]
    /\ End(i, "installed")
    /\ UNCHANGED <<dirs, calls>>

\* Action list and /skill reload read the library again, and so does action load for a
\* name it does not know.
Reload(i) ==
    /\ at[i] = "idle"
    /\ library' = [library EXCEPT ![i] = Discovered]
    /\ UNCHANGED <<dirs, at, job, answer, calls>>

\* A worker process that is cancelled, or the terminal, may end anywhere.
Kill(i) ==
    /\ at[i] \notin {"idle", "dead"}
    /\ GoTo(i, "dead") /\ job' = [job EXCEPT ![i] = NoJob]
    /\ UNCHANGED <<dirs, library, answer, calls>>

Next == \E i \in Installers :
    \/ Call(i) \/ Look(i) \/ Check(i) \/ Fetch(i) \/ Plan(i) \/ MakeDirectory(i)
    \/ CopyFile(i) \/ CopyDone(i) \/ Refresh(i) \/ Reload(i) \/ Kill(i)

Spec == Init /\ [][Next]_vars

---------------------------------------------------------------------------

\* A skill that a call says it has installed is the one that was checked, whole and
\* from no other call, whoever installs the same name meanwhile; and the process can
\* load it by the name the answer gives, unless another skill has that title or the
\* same title.
InstalledSkillWorks ==
    \A i \in Installers : answer[i] = "installed" =>
      \A p \in Range(job[i].missing) :
        LET n == NameOf[p]
        IN  /\ dirs[n].written = {[file |-> f, call |-> job[i].number] : f \in job[i].content[p].files}
            /\ SKILL \in FilesIn(n) /\ Cardinality(FilesIn(n)) <= MaxFiles
            /\ \/ Loads(library[i], n) = {n}
               \/ \E m \in Found \ {n} : TitleIn(m) \in {n, TitleOf[p]}
=============================================================================
