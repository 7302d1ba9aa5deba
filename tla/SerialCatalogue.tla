--------------------------- MODULE SerialCatalogue ---------------------------
(***************************************************************************)
(* What the two writers of the catalogue promise its readers: however      *)
(* syncs and imports overlap, fail or die, the catalogue changes as if     *)
(* they had run one after the other, each on the catalogue the one before  *)
(* left.  A sync's draft is the catalogue it began with and what it has    *)
(* made of it, item by item; it becomes the catalogue whole.  A file is    *)
(* applied at once.  Neither leaves a catalogue that is not sound.  Locks, *)
(* sessions, columns, pages, records and counts do not appear here;        *)
(* NineyardSync is shown to implement this specification.                  *)
(***************************************************************************)
CONSTANTS
    Syncs,              \* writers that apply items, one after the other
    Operators,          \* writers that apply a file
    Descriptions,       \* an item with what NineYard may say of it
    Files,
    ItemApplied(_, _),  \* a catalogue after an item
    FileApplied(_, _),  \* a catalogue after a file
    Refused(_, _),      \* whether a catalogue cannot take a file
    Sound(_)            \* whether the tables admit a catalogue

VARIABLES
    catalogue,
    drafts,             \* the draft of the sync at work, if there is one
    files               \* the file of the import at work, if there is one

vars == <<catalogue, drafts, files>>

Init ==
    /\ Sound(catalogue)
    /\ drafts = {}
    /\ files = {}

Free == drafts = {} /\ files = {}

BeginSync(w) ==
    /\ Free
    /\ drafts' = {[writer |-> w, is |-> catalogue]}
    /\ UNCHANGED <<catalogue, files>>

Apply ==
    /\ \E d \in drafts, y \in Descriptions :
         drafts' = {[writer |-> d.writer, is |-> ItemApplied(d.is, y)]}
    /\ UNCHANGED <<catalogue, files>>

Publish ==
    /\ drafts' = {}
    /\ \E d \in drafts : catalogue' = d.is
    /\ Sound(catalogue')
    /\ UNCHANGED files

BeginImport(w, f) ==
    /\ Free
    /\ files' = {[writer |-> w, is |-> f]}
    /\ ~Refused(catalogue, f)
    /\ UNCHANGED <<catalogue, drafts>>

PublishFile ==
    /\ files' = {}
    /\ \E f \in files : catalogue' = FileApplied(catalogue, f.is)
    /\ Sound(catalogue')
    /\ UNCHANGED drafts

Discard ==
    /\ drafts' = {}
    /\ files' = {}
    /\ UNCHANGED catalogue

Next ==
    \/ \E w \in Syncs : BeginSync(w)
    \/ Apply
    \/ Publish
    \/ \E w \in Operators, f \in Files : BeginImport(w, f)
    \/ PublishFile
    \/ Discard

Spec == Init /\ [][Next]_vars
=============================================================================
