------------------------------ MODULE Lookup ------------------------------
(***************************************************************************)
(* Where an agent is and what is run for it: the PATH a person has and the  *)
(* search of it (acp-agents/src/path.rs), the table of harnesses and launch *)
(* (acp-agents/src/lib.rs).                                                 *)
(*                                                                          *)
(* One call of launch, against a disk that others change meanwhile: an      *)
(* install that finishes, a binary that is removed.  The code asks after    *)
(* one file at a time (is_file), and so does a step here.                   *)
(***************************************************************************)
EXTENDS Naturals, Sequences, SequencesExt

CONSTANTS
  Dirs,       \* the absolute directories there are names for
  PrefixBin,  \* <prefix>/bin, where the product installs
  Given,      \* PATH as this process was handed it
  Answers,    \* what the person's shell may print, or <<>>
  Managers,   \* the version managers' directories, those that exist, in order
  Chosen,     \* Lookup::search, for a product that gives one
  Cursors,    \* the directories whose `agent` is really Cursor's
  CursorNamed, \* those of them with "cursor" in their own name
  Looks,      \* the Lookups asked for
  Offered,    \* the ids of the harnesses asked for
  MaxFiles,   \* bound: files there at first
  MaxChanges  \* bound: files that come or go during the call

(* An answer is a list of lines and a line the list split_paths makes of    *)
(* it, in which what is not absolute is a Word.  No answer at all (no       *)
(* shell, one that failed, one still thinking after two seconds) is <<>>.   *)
Word == "word"

Claude == [adapter |-> <<"claude-agent-acp">>, cli |-> <<"claude">>,
           args |-> <<>>, npx |-> <<"-y", "@agentclientprotocol/claude-agent-acp">>]
Codex == [adapter |-> <<"codex-acp">>, cli |-> <<"codex">>,
          args |-> <<>>, npx |-> <<"-y", "@agentclientprotocol/codex-acp">>]
Cursor == [adapter |-> <<>>, cli |-> <<"cursor-agent", "agent">>,
           args |-> <<"acp">>, npx |-> <<>>]
OpenCode == [adapter |-> <<>>, cli |-> <<"opencode">>,
             args |-> <<"acp">>, npx |-> <<>>]
HARNESSES == [claude |-> Claude, codex |-> Codex, cursor |-> Cursor,
              opencode |-> OpenCode]

PROXIES == {"npx", "npm", "pnpm", "pnpx", "yarn", "bunx", "uvx"}
Wrapper == "wrapper"          \* what a person names outright
Elsewhere == "elsewhere"      \* the directory of one named by its path
Bare == <<"", Wrapper>>       \* the same, named by its name alone
Names ==
  {"npx", Wrapper}
    \cup UNION {ToSet(HARNESSES[id].adapter \o HARNESSES[id].cli) : id \in DOMAIN HARNESSES}
Places == (Dirs \cup {Elsewhere}) \X Names
Overrides == {"none", "path", "name"}
ArgLists == UNION {{HARNESSES[id].args, HARNESSES[id].npx} : id \in DOMAIN HARNESSES}
Launches == [bin : Places \cup {Bare}, args : ArgLists, fetches : BOOLEAN]

ASSUME LookupAssumption ==
  /\ Elsewhere \notin Dirs /\ Word \notin Dirs
  /\ PrefixBin \in Dirs /\ Cursors \subseteq Dirs /\ CursorNamed \subseteq Cursors
  /\ Given \in Seq(Dirs) /\ Chosen \in Seq(Dirs) /\ Managers \in Seq(Dirs)
  /\ \A said \in Answers : said \in Seq(Seq(Dirs \cup {Word}))
  /\ Looks \subseteq [prefix : BOOLEAN, override : Overrides,
                      allow_npx : BOOLEAN, search : BOOLEAN]
  /\ Offered \subseteq DOMAIN HARNESSES
  /\ MaxFiles \in Nat /\ MaxChanges \in Nat

VARIABLES
  harness, look,  \* what is asked
  heard,          \* what the person's shell printed, once it has been asked
  path,           \* user_path, once it has been asked for
  pc,             \* how far launch has got: a stage, or its end
  names,          \* the names of this stage still to be looked for
  left,           \* where the name looked for now has still to be looked for
  hit,            \* at most one: a file found, not verified yet
  launch,         \* at most one: the answer
  files,          \* what is on the disk
  steady, ever,   \* history: there all through the call; there at some time
  changes

asked == <<harness, look>>
cached == <<heard, path>>
probing == <<names, left, hit>>
disk == <<files, steady, ever, changes>>
lookupVars == <<asked, cached, pc, probing, launch, disk>>

Stages == {"override", "adapter", "cli", "npx"}

(* Each variable is of its type, and a search that is over has an answer    *)
(* exactly if it found one.                                                 *)
LookupTypeOK ==
  /\ harness \in DOMAIN HARNESSES /\ look \in Looks
  /\ heard \in Answers \cup {<<>>} /\ path \in Seq(Dirs)
  /\ pc \in {"start", "found", "nowhere", "used"} \cup Stages
  /\ names \in Seq(Names) /\ left \in Seq(Places)
  /\ hit \subseteq Places /\ launch \subseteq Launches
  /\ (pc = "found") <=> (launch # {})
  /\ steady \subseteq files /\ files \subseteq ever /\ ever \subseteq Places
  /\ changes \in 0..MaxChanges

h == HARNESSES[harness]

(* The files that matter to this call.                                     *)
Disk ==
  CASE look.override = "none" -> Dirs \X (ToSet(h.adapter \o h.cli) \cup {"npx"})
    [] look.override = "path" -> {<<Elsewhere, Wrapper>>}
    [] look.override = "name" -> Dirs \X {Wrapper}

LookupInit ==
  /\ harness \in Offered /\ look \in Looks
  /\ heard = <<>> /\ path = <<>> /\ pc = "start"
  /\ names = <<>> /\ left = <<>> /\ hit = {} /\ launch = {}
  /\ files \in {s \in SUBSET Disk : Cardinality(s) <= MaxFiles}
  /\ steady = files /\ ever = files /\ changes = 0

---------------------------------------------------------------------------
(* The directories.                                                        *)

(* add_missing: what is not there yet, appended in its order; merged[i] is   *)
(* what the loop has come to after i of them.                              *)
AddMissing(base, extra) ==
  LET merged[i \in 0..Len(extra)] ==
        IF i = 0 THEN base
        ELSE LET before == merged[i - 1] IN
               IF extra[i] \in ToSet(before) THEN before ELSE Append(before, extra[i])
  IN merged[Len(extra)]

(* The absolute entries of a line.                                         *)
Absolute(line) ==
  LET kept[i \in 0..Len(line)] ==
        IF i = 0 THEN <<>>
        ELSE IF line[i] \in Dirs THEN Append(kept[i - 1], line[i]) ELSE kept[i - 1]
  IN kept[Len(line)]

FirstLine(said) ==   \* slip: the greeting of an rc file
  IF said = <<>> THEN <<>> ELSE Absolute(Head(said))

(* merged_path: the last line with anything on it, its absolute entries.   *)
SaidDirs(said) ==
  LET spoken == {i \in 1..Len(said) : said[i] # <<>>} IN
    IF spoken = {} THEN <<>>
    ELSE Absolute(said[Max(spoken)])

(* user_path: what this process was given, then what the shell added, then  *)
(* the places version managers use.  Without an answer, the shell adds      *)
(* nothing.                                                                 *)
UserPath(said) == AddMissing(AddMissing(Given, SaidDirs(said)), Managers)

(* directories: the owned prefix, then the person's own PATH.              *)
Directories == (IF look.prefix THEN <<PrefixBin>> ELSE <<>>) \o path

PathOnly == IF look.search THEN Chosen ELSE path   \* slip: not the prefix

(* Lookup::dirs.                                                           *)
SearchDirs == IF look.search THEN Chosen ELSE Directories

(* candidates: a bare name in each of them; a path is that path.           *)
Candidates(name, dirs) == [i \in 1..Len(dirs) |-> <<dirs[i], name>>]

---------------------------------------------------------------------------
(* launch.                                                                 *)

Enter(stage, wanted) ==
  /\ pc' = stage /\ names' = wanted /\ left' = <<>> /\ hit' = {}

(* The shell is asked once, and only if its PATH will be looked at.        *)
Start ==
  /\ pc = "start"
  /\ IF look.override = "none" THEN Enter("adapter", h.adapter)
                               ELSE Enter("override", <<Wrapper>>)
  /\ IF look.override = "path" \/ (look.override = "none" /\ look.search)
       THEN UNCHANGED cached
       ELSE heard' \in Answers /\ path' = UserPath(heard')
  /\ UNCHANGED <<asked, launch, disk>>

(* available, of an override; find, of a name.                             *)
Where(name) ==
  CASE pc = "override" /\ look.override = "path" -> << <<Elsewhere, name>> >>
    [] pc = "override" /\ look.override = "name" -> Candidates(name, path)
    [] OTHER -> Candidates(name, SearchDirs)

(* first_installed: on to the next name.                                   *)
NextName ==
  /\ pc \in Stages /\ left = <<>> /\ hit = {} /\ names # <<>>
  /\ left' = Where(Head(names)) /\ names' = Tail(names)
  /\ UNCHANGED <<asked, cached, pc, hit, launch, disk>>

ProbeBackwards ==   \* slip: the last of the directories first
  /\ left # <<>>
  /\ IF Last(left) \in files THEN left' = <<>> /\ hit' = {Last(left)}
                             ELSE left' = Front(left) /\ UNCHANGED hit
  /\ UNCHANGED <<asked, cached, pc, names, launch, disk>>

ProbeUnseen ==   \* slip: a place is taken for granted
  /\ left # <<>> /\ left' = <<>> /\ hit' = {Head(left)}
  /\ UNCHANGED <<asked, cached, pc, names, launch, disk>>

(* found: is_file, of one place; the first that is there ends it.          *)
Probe ==
  /\ left # <<>>
  /\ IF Head(left) \in files THEN left' = <<>> /\ hit' = {Head(left)}
                             ELSE left' = Tail(left) /\ UNCHANGED hit
  /\ UNCHANGED <<asked, cached, pc, names, launch, disk>>

(* name_verified: `agent` is looked at once more, any other name is         *)
(* specific enough.  Of one that is gone again no link can be followed, and *)
(* its own path is taken for the real one.                                  *)
Verified(place) ==
  place[2] = "agent" =>
    place[1] \in (IF place \in files THEN Cursors ELSE CursorNamed)

Answer(bin, args, fetches) ==
  /\ launch' = {[bin |-> bin, args |-> args, fetches |-> fetches]}
  /\ pc' = "found" /\ names' = <<>> /\ left' = <<>> /\ hit' = {}

Nowhere ==
  /\ pc' = "nowhere" /\ names' = <<>> /\ left' = <<>> /\ hit' = {}
  /\ UNCHANGED launch

TakeBare(place) ==   \* slip: the CLI is run whether it speaks ACP or not
  CASE pc = "override" ->
         Answer(IF look.override = "path" THEN place ELSE Bare, <<>>, FALSE)
    [] pc = "adapter" -> Answer(place, <<>>, FALSE)
    [] pc = "cli" -> Answer(place, h.args, FALSE)
    [] pc = "npx" -> Answer(place, h.npx, TRUE)

(* What a verified find of this stage comes to.                            *)
Take(place) ==
  CASE pc = "override" ->
         Answer(IF look.override = "path" THEN place ELSE Bare, <<>>, FALSE)
    [] pc = "adapter" -> Answer(place, <<>>, FALSE)
    [] pc = "cli" /\ h.args # <<>> -> Answer(place, h.args, FALSE)
    [] pc = "cli" /\ h.args = <<>> ->
         IF look.allow_npx /\ h.npx # <<>> THEN Enter("npx", <<"npx">>) /\ UNCHANGED launch
                                           ELSE Nowhere
    [] pc = "npx" -> Answer(place, h.npx, TRUE)

Verify ==
  \E place \in hit :
    /\ IF Verified(place) THEN Take(place)
       ELSE hit' = {} /\ UNCHANGED <<pc, names, left, launch>>
    /\ UNCHANGED <<asked, cached, disk>>

(* A stage that found nothing: after the adapter the CLI, after the rest    *)
(* None.                                                                    *)
StageOver ==
  /\ pc \in Stages /\ names = <<>> /\ left = <<>> /\ hit = {}
  /\ IF pc = "adapter" THEN Enter("cli", h.cli) /\ UNCHANGED launch ELSE Nowhere
  /\ UNCHANGED <<asked, cached, disk>>

(* The answer has been used.  Nothing of the search outlives it but the     *)
(* cached PATH; the disk is not looked at again, and not followed further.  *)
Used ==
  /\ pc = "found" /\ pc' = "used" /\ launch' = {}
  /\ files' = {} /\ steady' = {} /\ ever' = {} /\ changes' = 0
  /\ UNCHANGED <<asked, cached, probing>>

---------------------------------------------------------------------------
(* The disk (external): somebody installs or removes a binary.             *)

Change ==
  /\ changes < MaxChanges /\ changes' = changes + 1
  /\ \E p \in Disk :
       IF p \in files
         THEN files' = files \ {p} /\ steady' = steady \ {p} /\ UNCHANGED ever
         ELSE files' = files \cup {p} /\ ever' = ever \cup {p} /\ UNCHANGED steady
  /\ UNCHANGED <<asked, cached, pc, probing, launch>>

LookupStep == Start \/ NextName \/ Probe \/ Verify \/ StageOver
LookupOver == pc \in {"found", "nowhere"}
LookupNext == LookupStep \/ (pc \in {"start"} \cup Stages /\ Change)

---------------------------------------------------------------------------
(* The PATH is the one this process was given, in its order, and after it    *)
(* every directory the shell or a version manager adds, once: a shell can    *)
(* add to a search and never come before what was there (add_missing,        *)
(* merged_path).                                                             *)
GivenKeepsItsPlace ==
  path # <<>> =>
    /\ IsPrefix(Given, path)
    /\ \A i \in (Len(Given) + 1)..Len(path) : \A j \in 1..(i - 1) : path[i] # path[j]
    /\ LET spoken == {i \in 1..Len(heard) : heard[i] # <<>>} IN
         ToSet(path) =
           ToSet(Given) \cup ToSet(Managers)
             \cup {d \in Dirs : \E i \in spoken : /\ \A j \in spoken : j <= i
                                              /\ d \in ToSet(heard[i])}

(* Whatever happens to the disk during the call, what is to be run was      *)
(* there, and it speaks ACP: a CLI that is a REPL is never started in the   *)
(* place of its adapter, a stranger's `agent` never in Cursor's, and an     *)
(* adapter is fetched only if that was asked for and for a CLI that was     *)
(* there (launch, name_verified).                                           *)
SpeaksTheProtocol ==
  \A l \in launch :
    LET name == l.bin[2] IN
    /\ \/ l.bin \in ever
       \/ l.bin = Bare /\ \E d \in ToSet(path) : <<d, Wrapper>> \in ever
    /\ \/ look.override # "none" /\ name = Wrapper
       \/ name \in ToSet(h.adapter) /\ l.args = <<>> /\ ~l.fetches
       \/ /\ name \in ToSet(h.cli) /\ l.args = <<"acp">> /\ ~l.fetches
          /\ name = "agent" => l.bin[1] \in Cursors
       \/ /\ name = "npx" /\ l.fetches /\ look.allow_npx
          /\ \E d \in ToSet(SearchDirs), c \in ToSet(h.cli) : <<d, c>> \in ever

(* The names that would speak ACP, in the order they are trusted.          *)
Speakers == h.adapter \o IF h.args = <<>> THEN <<>> ELSE h.cli

(* Something that was there all the time is not passed over for something   *)
(* less trusted: not another adapter for an earlier one, not a later        *)
(* directory for an earlier one, not a download for what is installed, and   *)
(* not nothing for a download that was allowed (launch, first_installed).    *)
(* An `agent` behind one that is somebody else's, or that does not stay, is  *)
(* looked for no further.                                                  *)
NothingBetterWasThere ==
  LookupOver /\ look.override = "none" =>
    /\ \A n \in 1..Len(Speakers), d \in 1..Len(SearchDirs) :
         /\ <<SearchDirs[d], Speakers[n]>> \in steady
         /\ Speakers[n] = "agent" =>
              \A e \in 1..d : LET place == <<SearchDirs[e], "agent">> IN
                place \in ever => place \in steady /\ SearchDirs[e] \in Cursors
         => \E l \in launch, m \in 1..n, e \in 1..Len(SearchDirs) :
              /\ l.bin = <<SearchDirs[e], Speakers[m]>>
              /\ m = n => e <= d
    /\ /\ look.allow_npx /\ h.npx # <<>>
       /\ \E d, e \in ToSet(SearchDirs), c \in ToSet(h.cli) :
            {<<d, c>>, <<e, "npx">>} \subseteq steady
       => launch # {}

(* installed, asked of the disk as it stood all through the call.          *)
Installed(command) ==
  command \notin PROXIES /\ \E d \in ToSet(Directories) : <<d, command>> \in steady

(* An agent a settings panel shows as installed, by the name Harness::command *)
(* gives, is one launch finds (installed, command, launch).                    *)
ReadyMeansLaunchable ==
  LookupOver /\ look.override = "none" /\ ~look.search
    /\ Installed(Head(h.adapter \o h.cli)) => launch # {}
===========================================================================
