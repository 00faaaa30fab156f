--------------------------- MODULE PortalRouting ---------------------------
(***************************************************************************)
(* ryofiles-portalctl (PortalRoutingManager.cpp): enable puts Ryofiles     *)
(* first in the FileChooser line of another program's portal configuration *)
(* and keeps the line it replaced in a state file; disable puts that line  *)
(* back.  Two files are written one after the other, each atomically; the  *)
(* command may be killed between any two steps, and every step can fail.   *)
(* The configuration belongs to the user and to other tools, who edit it   *)
(* whenever no command runs: nothing locks it, and an edit during a        *)
(* command is outside this model.                                          *)
(***************************************************************************)
EXTENDS Naturals, SequencesExt

CONSTANTS
  MaxLines,   \* bound: lines of the configuration
  MaxEdits    \* bound: edits of others
ASSUME BoundsAssumption == MaxLines \in Nat /\ MaxEdits \in Nat

(* A line is a section header, a FileChooser entry or anything else.  An
   entry has its backends and is written our way or with other spacing. *)
Line(kind, ours, backends) == [kind |-> kind, ours |-> ours, backends |-> backends]
Entry(ours, backends) == Line("entry", ours, backends)
Preferred == Line("preferred", FALSE, <<>>)
Others    == {Line("section", FALSE, <<>>), Line("other", FALSE, <<>>)}
Gtk       == <<"gtk">>
Both      == <<"ryofiles", "gtk">>
Entries   == {Entry(TRUE, Gtk), Entry(TRUE, Both), Entry(FALSE, Gtk), Entry(FALSE, Both),
              Entry(TRUE, <<"ryofiles">>)}
NoLine    == Line("none", FALSE, <<>>)
Lines     == {Preferred} \cup Others \cup Entries
Configs   == UNION {[1 .. n -> Lines] : n \in 0 .. MaxLines}

VARIABLES
  config,  \* the lines of hyprland-portals.conf
  stored,  \* portal-routing.json: of this configuration, of another one, invalid or absent
  pc,      \* the step the running command is at
  report,  \* what the last command that ended has said
  edits,   \* number of edits
  before,  \* history: the configuration the last enable replaced
  written  \* history: the entry in force was written by enable

routingVars == <<config, stored, pc, report, edits, before, written>>

NoState == [of |-> "none", original |-> NoLine, managed |-> NoLine]
Steps   == {"idle", "dropState", "writeState", "writeConfig", "undoState",
            "restoreConfig", "forgetState", "finishState"}

RoutingTypeOK ==
  /\ config \in Seq(Lines)
  /\ stored \in [of : {"none", "invalid", "other", "this"},
                 original : Entries \cup {NoLine}, managed : Entries \cup {NoLine}]
  /\ pc \in Steps
  /\ report \in {"none", "enabled", "disabled", "failed"}
  /\ edits \in 0 .. MaxEdits

RoutingInit ==
  /\ config \in Configs
  /\ stored \in {NoState} \cup {[NoState EXCEPT !.of = o] : o \in {"invalid", "other"}}
  /\ pc = "idle" /\ report = "none" /\ edits = 0
  /\ before = config /\ written = FALSE

----------------------------------------------------------------------------
(* parseConfig *)

Headers(c)     == {i \in DOMAIN c : c[i] = Preferred}
IsHeader(line) == line.kind \in {"preferred", "section"}
InPreferred(c, i) ==
  \E h \in Headers(c) : h < i /\ \A k \in h + 1 .. i : ~IsHeader(c[k])
Keys(c)        == {i \in DOMAIN c : c[i].kind = "entry" /\ InPreferred(c, i)}
ParsedOk(c)    == Cardinality(Headers(c)) = 1 /\ Cardinality(Keys(c)) <= 1
KeyLine(c)     == IF Keys(c) = {} THEN NoLine ELSE c[CHOOSE i \in Keys(c) : TRUE]

\* Mutant of PreferredEnd: the end of the file, whatever section that is in.
EndOfFile(c) == Len(c) + 1

(* preferredEnd: where an entry is inserted *)
PreferredEnd(c) ==
  LET h == CHOOSE i \in Headers(c) : TRUE
  IN  CHOOSE e \in h + 1 .. Len(c) + 1 :
        /\ e = Len(c) + 1 \/ IsHeader(c[e])
        /\ \A k \in h + 1 .. e - 1 : ~IsHeader(c[k])

ContainsRyofiles(line) == "ryofiles" \in Range(line.backends)

(* managedBackendValue and managedLineForValue: ryofiles before whatever else
   the line has, which of these entries only gtk can be. *)
Managed(line) == Entry(TRUE, <<"ryofiles">> \o IF "gtk" \in Range(line.backends) THEN Gtk ELSE <<>>)

WithKey(c, line) ==
  IF Keys(c) = {} THEN InsertAt(c, PreferredEnd(c), line)
  ELSE [c EXCEPT ![CHOOSE i \in Keys(c) : TRUE] = line]
WithoutKey(c) == RemoveAt(c, CHOOSE i \in Keys(c) : TRUE)

IsManaged == KeyLine(config) = stored.managed /\ ContainsRyofiles(KeyLine(config))

----------------------------------------------------------------------------
Ends(result) == pc' = "idle" /\ report' = result

(* enable up to its first write: what it refuses, what is done already, and
   what is left to do.  Either file may be unreadable. *)
Enable ==
  /\ pc = "idle"
  /\ \/ Ends("failed")   \* a file is missing, a link or unreadable
     \/ ~ParsedOk(config) /\ Ends("failed")
     \/ stored.of \in {"invalid", "other"} /\ Ends("failed")
     \/ /\ ParsedOk(config) /\ stored.of = "this"
        /\ \/ IsManaged /\ Ends("enabled")
           \/ ~ContainsRyofiles(KeyLine(config)) /\ pc' = "dropState" /\ UNCHANGED report
           \/ ContainsRyofiles(KeyLine(config)) /\ ~IsManaged /\ Ends("failed")
     \/ /\ ParsedOk(config) /\ stored.of = "none"
        /\ \/ ContainsRyofiles(KeyLine(config)) /\ Ends("enabled")
           \/ ~ContainsRyofiles(KeyLine(config)) /\ pc' = "writeState" /\ UNCHANGED report
  /\ UNCHANGED <<config, stored, edits, before, written>>

(* removeState, of a state that no longer describes the configuration *)
DropState ==
  /\ pc = "dropState"
  /\ \/ stored' = NoState /\ pc' = "writeState" /\ UNCHANGED report
     \/ UNCHANGED stored /\ Ends("failed")
  /\ UNCHANGED <<config, edits, before, written>>

\* Mutant of WriteState: the state is committed after the configuration.
WriteStateLater ==
  /\ pc = "writeState"
  /\ pc' = "writeConfig" /\ UNCHANGED <<report, stored>>
  /\ UNCHANGED <<config, edits, before, written>>

(* writeState *)
WriteState ==
  /\ pc = "writeState"
  /\ \/ /\ stored' = [of |-> "this", original |-> KeyLine(config), managed |-> Managed(KeyLine(config))]
        /\ pc' = "writeConfig" /\ UNCHANGED report
     \/ UNCHANGED stored /\ Ends("failed")
  /\ UNCHANGED <<config, edits, before, written>>

(* writeConfigAtomically in enable; when it fails the state is withdrawn *)
WriteConfig ==
  /\ pc = "writeConfig"
  /\ \/ /\ config' = WithKey(config, Managed(KeyLine(config)))
        /\ before' = config /\ written' = TRUE
        /\ Ends("enabled")
     \/ pc' = "undoState" /\ UNCHANGED <<report, config, before, written>>
  /\ UNCHANGED <<stored, edits>>

(* removeState after a failed write; whether it succeeds is not looked at *)
UndoState ==
  /\ pc = "undoState"
  /\ stored' \in {NoState, stored}
  /\ Ends("failed")
  /\ UNCHANGED <<config, edits, before, written>>

(* disable up to its first write *)
Disable ==
  /\ pc = "idle"
  /\ \/ Ends("failed")
     \/ ~ParsedOk(config) /\ Ends("failed")
     \/ stored.of \in {"invalid", "other"} /\ Ends("failed")
     \/ /\ ParsedOk(config) /\ stored.of = "none"
        /\ \/ ContainsRyofiles(KeyLine(config)) /\ Ends("failed")
           \/ ~ContainsRyofiles(KeyLine(config)) /\ Ends("disabled")
     \/ /\ ParsedOk(config) /\ stored.of = "this"
        /\ \/ ~ContainsRyofiles(KeyLine(config)) /\ pc' = "forgetState" /\ UNCHANGED report
           \/ IsManaged /\ pc' = "restoreConfig" /\ UNCHANGED report
           \/ ContainsRyofiles(KeyLine(config)) /\ ~IsManaged /\ Ends("failed")
  /\ UNCHANGED <<config, stored, edits, before, written>>

(* removeState when others have restored the line *)
ForgetState ==
  /\ pc = "forgetState"
  /\ \/ stored' = NoState /\ Ends("disabled")
     \/ UNCHANGED stored /\ Ends("failed")
  /\ UNCHANGED <<config, edits, before, written>>

\* Mutant of RestoreConfig: the entry goes, the line it replaced is not put back.
RestoreByRemoval ==
  /\ pc = "restoreConfig"
  /\ config' = WithoutKey(config)
  /\ written' = FALSE /\ pc' = "finishState"
  /\ UNCHANGED <<report, stored, edits, before>>

(* writeConfigAtomically in disable *)
RestoreConfig ==
  /\ pc = "restoreConfig"
  /\ \/ /\ config' = IF stored.original = NoLine THEN WithoutKey(config)
                     ELSE WithKey(config, stored.original)
        /\ written' = FALSE /\ pc' = "finishState" /\ UNCHANGED report
     \/ Ends("failed") /\ UNCHANGED <<config, written>>
  /\ UNCHANGED <<stored, edits, before>>

(* removeState after the line was restored; a failure is only mentioned *)
FinishState ==
  /\ pc = "finishState"
  /\ stored' \in {NoState, stored}
  /\ Ends("disabled")
  /\ UNCHANGED <<config, edits, before, written>>

----------------------------------------------------------------------------
(* The command is killed: what was committed stays. *)
Crash ==
  /\ pc # "idle"
  /\ pc' = "idle" /\ report' = "none"
  /\ UNCHANGED <<config, stored, edits, before, written>>

(* Another program or the user changes an entry: sets, adds or removes it. *)
Edit ==
  /\ pc = "idle" /\ edits < MaxEdits
  /\ edits' = edits + 1
  /\ \/ \E i \in DOMAIN config, e \in Entries :
          config[i].kind = "entry" /\ config[i] # e /\ config' = [config EXCEPT ![i] = e]
     \/ \E i \in 1 .. Len(config) + 1, e \in Entries :
          Len(config) < MaxLines /\ config' = InsertAt(config, i, e)
     \/ \E i \in DOMAIN config : config[i].kind = "entry" /\ config' = RemoveAt(config, i)
  /\ written' = (written /\ ParsedOk(config') /\ KeyLine(config') = KeyLine(config))
  /\ report' = "none"
  /\ UNCHANGED <<stored, pc, before>>

Command == \/ Enable \/ DropState \/ WriteState \/ WriteConfig \/ UndoState
           \/ Disable \/ ForgetState \/ RestoreConfig \/ FinishState

RoutingNext == Command \/ Crash \/ Edit

RoutingSpec == RoutingInit /\ [][RoutingNext]_routingVars

----------------------------------------------------------------------------
(* Whatever command was killed where: an entry that enable wrote and nobody
   has touched since can be taken back, because the state file names it and
   the line it replaced. *)
ManagedRouteCanBeRestored ==
  written => /\ stored.of = "this"
             /\ stored.managed = KeyLine(config) /\ ContainsRyofiles(stored.managed)
             /\ stored.original = KeyLine(before)

(* disable gives back the very file that enable found, line by line, if others
   have left it alone, also when the entry had to be inserted. *)
RestoreIsExact ==
  [][/\ written /\ config = WithKey(before, stored.managed)
     /\ pc = "restoreConfig" /\ pc' = "finishState"
     => config' = before]_routingVars

(* A command that reports success has told the truth about the routing, also
   after commands that were killed and edits of others. *)
ReportIsTrue ==
  pc = "idle" => /\ report = "enabled"  => ContainsRyofiles(KeyLine(config))
                 /\ report = "disabled" => ~ContainsRyofiles(KeyLine(config))

(* disable never removes an entry that enable did not write. *)
ExternalRouteIsLeftAlone ==
  [][pc = "restoreConfig" /\ pc' = "finishState" => written]_routingVars
=============================================================================
