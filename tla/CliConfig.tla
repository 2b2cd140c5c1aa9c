----------------------------- MODULE CliConfig -----------------------------
(***************************************************************************)
(* The settings files of four command line tools, which the admin          *)
(* endpoints point at this server and back (cliconfig.go).  A file is its  *)
(* form, the settings the package owns (which provider is selected, and    *)
(* where) and the user's own, kept in the same file.  A call reads a file, *)
(* changes what it has read, and writes it back, with no lock against      *)
(* other calls, the user and the tools, which write the files too.         *)
(***************************************************************************)
EXTENDS Naturals, FiniteSets

CONSTANTS Own,         \* the user's own settings in a file
          Calls        \* calls of the endpoints that may overlap

VARIABLES tool,        \* the tool in question: no call touches another's files
          files,       \* the settings files
          task,        \* where each call is, and the text it is to write
          left,        \* history: what of the user's own may be in each file
          answer       \* how the call that ended in this step was answered

cliVars == <<tool, files, task, left, answer>>

\* Cline keeps its API key in a file of its own.
File == {"claude", "cline", "clineSecrets", "deepseek", "qwen"}
Tool == File \ {"clineSecrets"}
FilesOf == {tool} \union (IF tool = "cline" THEN {"clineSecrets"} ELSE {})

\* A file is empty from os.WriteFile's truncating it to its writing the text.
Form == {"absent", "empty", "bad", "map"}
Provider == {"unset", "theirs", "openai"}
Base == {"unset", "local", "remote"}
Content == [form: Form, provider: Provider, base: Base, own: SUBSET Own]
Call == [op: {"none", "apply", "reset"}, pc: {"idle", "open", "fill", "second"},
         file: File, text: Content, alone: BOOLEAN]

Blank == [form |-> "map", provider |-> "unset", base |-> "unset", own |-> {}]
Absent == [Blank EXCEPT !.form = "absent"]
Emptied == [Blank EXCEPT !.form = "empty"]
Bad == [Blank EXCEPT !.form = "bad"]
NoCall == [op |-> "none", pc |-> "idle", file |-> "claude", text |-> Blank, alone |-> TRUE]
Silence == [op |-> "none", ok |-> TRUE, alone |-> TRUE]

CliInit ==
  /\ tool \in Tool
  /\ files = [f \in File |-> Absent]
  /\ task = [c \in Calls |-> NoCall]
  /\ left = [f \in File |-> {{}}]
  /\ answer = Silence

\* Mutant of Parsed: the settings that are there are not read.
NeverRead(content) == Blank

\* A file that is absent or does not parse is taken for an empty one by Apply.
Parsed(content) == IF content.form = "map" THEN content ELSE Blank

\* Claude's selection is the presence of the base URL in env.
ApplyClaude(content, base) == [Parsed(content) EXCEPT !.base = base]
ApplyCline(content, base) == [Parsed(content) EXCEPT !.provider = "openai", !.base = base]
ApplySecrets(content) == [Parsed(content) EXCEPT !.base = "remote"]
\* DeepSeek's file is written anew.
ApplyDeepSeek(base) == [Blank EXCEPT !.provider = "openai", !.base = base]
ApplyQwen(content, base) == [Parsed(content) EXCEPT !.provider = "openai", !.base = base]

Applied(t, content, base) ==
  CASE t = "claude" -> ApplyClaude(content, base)
    [] t = "cline" -> ApplyCline(content, base)
    [] t = "deepseek" -> ApplyDeepSeek(base)
    [] t = "qwen" -> ApplyQwen(content, base)

ResetClaude(content) == [content EXCEPT !.base = "unset"]
ResetCline(content) == [content EXCEPT !.provider = "theirs", !.base = "unset"]
ResetSecrets(content) == [content EXCEPT !.base = "unset"]
ResetDeepSeek == [Blank EXCEPT !.provider = "theirs"]
ResetQwen(content) == IF content.provider = "unset" /\ content.base = "unset" THEN content
                      ELSE [content EXCEPT !.provider = "theirs", !.base = "unset"]

Undone(t, content) == CASE t = "claude" -> ResetClaude(content)
                        [] t = "cline" -> ResetCline(content)
                        [] t = "deepseek" -> ResetDeepSeek
                        [] t = "qwen" -> ResetQwen(content)

\* What CheckClaude, CheckCline, CheckDeepSeek and CheckQwen call HasConfig.
PointsHere(t, content) ==
  /\ content.form = "map"
  /\ IF t = "claude" THEN content.base # "unset"
     ELSE content.provider = "openai" /\ content.base = "local"
HasConfig(t) == PointsHere(t, files[t])
----------------------------------------------------------------------------
\* A step that writes a file disturbs the calls under way, but those in mine.
Disturbed(mine) ==
  [c \in Calls |-> IF c \in mine \/ task[c].pc = "idle" THEN task[c]
                   ELSE [task[c] EXCEPT !.alone = FALSE]]

Starts(c, op, text) ==
  /\ task' = [task EXCEPT ![c] = [op |-> op, pc |-> "open", file |-> tool,
                                  text |-> text, alone |-> TRUE]]
  /\ answer' = Silence

\* A file that Apply could not parse is not the user's any more.
Forgotten(f) ==
  left' = IF files[f].form \in {"empty", "bad"} THEN [left EXCEPT ![f] = @ \union {{}}] ELSE left

\* The file is read, and the text to write is made of it.
Apply(c) ==
  /\ task[c].pc = "idle"
  /\ \E base \in {"local", "remote"} : Starts(c, "apply", Applied(tool, files[tool], base))
  /\ Forgotten(tool)
  /\ UNCHANGED <<tool, files>>

\* An absent file needs no reset, except DeepSeek's, which is not read; one that
\* does not parse is an error.
Reset(c) ==
  /\ task[c].pc = "idle" /\ tool # "cline"
  /\ \/ /\ files[tool].form = "map" \/ tool = "deepseek"
        /\ Starts(c, "reset", Undone(tool, files[tool]))
     \/ /\ files[tool].form # "map" /\ tool # "deepseek"
        /\ answer' = [Silence EXCEPT !.op = "reset", !.ok = files[tool].form = "absent"]
        /\ UNCHANGED task
  /\ UNCHANGED <<tool, files, left>>

\* Cline's is written if it selects the provider, and the other file is next.
ResetClineState(c) ==
  /\ task[c].pc = "idle" /\ tool = "cline"
  /\ LET now == files["cline"]
     IN  \/ /\ now.form = "map" /\ now.provider = "openai"
            /\ Starts(c, "reset", ResetCline(now))
         \/ /\ ~(now.form = "map" /\ now.provider = "openai")
            /\ task' = [task EXCEPT ![c] = [NoCall EXCEPT !.op = "reset", !.pc = "second", !.file = "cline"]]
            /\ answer' = Silence
  /\ UNCHANGED <<tool, files, left>>

Ends(c, ok) ==
  /\ answer' = [op |-> task[c].op, ok |-> ok, alone |-> task[c].alone]
  /\ task' = [task EXCEPT ![c] = NoCall]

\* The file is dealt with: Cline's second one is next, or the call is answered.
Proceeds(c, ok) ==
  LET more == task[c].file = "cline" /\ ok
  IN  /\ task' = [Disturbed({c}) EXCEPT
                    ![c] = IF more THEN [@ EXCEPT !.pc = "second", !.text = Blank] ELSE NoCall]
      /\ answer' = IF more THEN Silence
                   ELSE [op |-> task[c].op, ok |-> ok, alone |-> task[c].alone]

\* Cline's API key is in its second file.
SecondFile(c) ==
  /\ task[c].pc = "second"
  /\ LET now == files["clineSecrets"]
         Makes(text) == /\ task' = [task EXCEPT ![c].pc = "open", ![c].file = "clineSecrets",
                                                ![c].text = text]
                        /\ answer' = Silence
     IN  \/ task[c].op = "apply" /\ Makes(ApplySecrets(now)) /\ Forgotten("clineSecrets")
         \/ /\ task[c].op = "reset" /\ UNCHANGED left
            /\ \/ now.form = "map" /\ Makes(ResetSecrets(now))
               \/ now.form # "map" /\ Ends(c, TRUE)
  /\ UNCHANGED <<tool, files>>

\* A file cannot be read, or its directory not made.
ReadFails(c) ==
  /\ \/ /\ task[c].pc = "idle"
        /\ \E op \in {"apply", "reset"} : answer' = [Silence EXCEPT !.op = op, !.ok = FALSE]
        /\ UNCHANGED task
     \/ task[c].pc = "second" /\ Ends(c, FALSE)
  /\ UNCHANGED <<tool, files, left>>

\* os.WriteFile truncates the file, and then writes the text to it.
OpenFile(c) ==
  /\ task[c].pc = "open"
  /\ files' = [files EXCEPT ![task[c].file] = Emptied]
  /\ task' = [Disturbed({c}) EXCEPT ![c].pc = "fill"]
  /\ answer' = Silence
  /\ UNCHANGED <<tool, left>>

\* Over what somebody else has written since: the new text, or with the end of a
\* longer one after it; the other's alone, if he put a new file in its place.
Filled(old, new) == IF old.form = "empty" THEN {new} ELSE {new, Bad, old}

FillFile(c) ==
  /\ task[c].pc = "fill"
  /\ \E content \in Filled(files[task[c].file], task[c].text) :
       files' = [files EXCEPT ![task[c].file] = content]
  /\ Proceeds(c, TRUE)
  /\ UNCHANGED <<tool, left>>

\* Cline's Reset does not look at how its writes went; DeepSeek's takes it that
\* without a directory there is nothing to reset.
WriteFails(c) ==
  /\ \/ task[c].pc = "open" /\ UNCHANGED files
     \/ /\ task[c].pc = "fill"
        /\ files' \in {files, [files EXCEPT ![task[c].file] = Bad]}
  /\ \/ task[c].op = "reset" /\ tool = "cline" /\ Proceeds(c, TRUE)
     \/ /\ task[c].op = "reset" /\ tool = "deepseek" /\ task[c].pc = "open"
        /\ files[tool].form = "absent" /\ Proceeds(c, TRUE)
     \/ ~(task[c].op = "reset" /\ tool = "cline") /\ Proceeds(c, FALSE)
  /\ UNCHANGED <<tool, left>>

\* Half a text is not parsable, no more than none.
ServerDies ==
  /\ task' = [c \in Calls |-> NoCall] /\ answer' = Silence
  /\ UNCHANGED <<tool, files, left>>

\* What there is to select: a provider and where it is, but for Claude only
\* where, and in Cline's second file whether there is a key.  Cline's and
\* DeepSeek's Check and Reset do not tell an unset one from another.
Selection(f) == (CASE f \in {"claude", "clineSecrets"} -> {"unset"}
                   [] f \in {"cline", "deepseek"} -> {"theirs", "openai"}
                   [] OTHER -> Provider)
                  \X (IF f \in {"claude", "qwen"} THEN Base
                      ELSE IF f = "clineSecrets" THEN {"unset", "remote"} ELSE {"local", "remote"})

\* The user edits a file: settings the package owns, and his own.  What a call
\* has read of his before, it writes over them.
UserEdits(f) ==
  /\ f \in FilesOf
  /\ \E own \in SUBSET Own, s \in Selection(f) :
       /\ files' = [files EXCEPT ![f] = [form |-> "map", provider |-> s[1], base |-> s[2], own |-> own]]
       /\ left' = [left EXCEPT ![f] =
            {own} \union {task[c].text.own : c \in {d \in Calls : /\ task[d].pc \in {"open", "fill"}
                                                                  /\ task[d].file = f}}]
  /\ task' = Disturbed({}) /\ answer' = Silence
  /\ UNCHANGED tool

\* Or makes a slip.
UserBreaks(f) ==
  /\ f \in FilesOf
  /\ files' = [files EXCEPT ![f] = Bad]
  /\ task' = Disturbed({}) /\ answer' = Silence
  /\ UNCHANGED <<tool, left>>

CliNext ==
  \/ \E c \in Calls : \/ Apply(c) \/ Reset(c) \/ ResetClineState(c) \/ SecondFile(c)
                      \/ OpenFile(c) \/ FillFile(c) \/ ReadFails(c) \/ WriteFails(c)
  \/ ServerDies
  \/ \E f \in File : UserEdits(f) \/ UserBreaks(f)

CliSpec == CliInit /\ [][CliNext]_cliVars
----------------------------------------------------------------------------
CliTypeOK ==
  /\ tool \in Tool
  /\ files \in [File -> Content]
  /\ task \in [Calls -> Call]
  /\ left \in [File -> SUBSET SUBSET Own]
  /\ answer \in [op: {"none", "apply", "reset"}, ok: BOOLEAN, alone: BOOLEAN]

\* However often a tool is pointed here and back, what a file holds of the
\* user's own is what he last left there, or what a call that had read the file
\* before has put back, or, since an Apply found it not parsable, nothing
\* (DeepSeek's is written anew each time: cliconfig.go:431-439, 453-455).  A
\* call answered as successful has done it, if nobody else wrote the tool's
\* files meanwhile: after Apply the provider is this server, after Reset it is
\* not (Cline's Reset does not look at its writes: see ResetIsDone).
CliSettingsHold ==
  /\ \A f \in FilesOf \ {"deepseek"} : files[f].form = "map" => files[f].own \in left[f]
  /\ answer = [op |-> "apply", ok |-> TRUE, alone |-> TRUE] =>
       IF tool = "claude" THEN HasConfig(tool) ELSE files[tool].provider = "openai"
  /\ answer = [op |-> "reset", ok |-> TRUE, alone |-> TRUE] /\ tool # "cline" => ~HasConfig(tool)

\* config_api.go:304: resetCliConfig "resets a CLI tool config to defaults".  A
\* Reset of Cline whose writes failed is answered as one that did.
ResetIsDone == answer = [op |-> "reset", ok |-> TRUE, alone |-> TRUE] => ~HasConfig(tool)
============================================================================
