------------------------------- MODULE Parser -------------------------------
(***************************************************************************)
(* From a message of the stream to the work it asks for: the order in      *)
(* which blockbuster/src/instruction.rs puts the instructions of a         *)
(* transaction, and what BubblegumParser (blockbuster/src/programs/        *)
(* bubblegum/mod.rs) makes of each.                                        *)
(*                                                                         *)
(* An instruction is [program, name, id, of, args, keys, lost]: args says  *)
(* that its data deserializes, keys is how many accounts it has, lost that *)
(* it names accounts the message lacks.  An event is an instruction of a   *)
(* noop program; `of` is the id of the instruction whose execution logged  *)
(* it.                                                                     *)
(***************************************************************************)
EXTENDS Naturals, Sequences, SequencesExt, FiniteSetsExt

\* The programs ProgramTransformer::new registers a parser for.
key_set == {"bubblegum", "token_metadata", "token", "mpl_core", "token_2022", "inscriptions"}

Noops == {"spl_noop", "mpl_noop"}

Work(ix, inner) == [ix |-> ix, inner |-> inner]

\* Mutant: an inner instruction is given all that follow it.
Hoisted_everything(inner, n) == Work(inner[n], SubSeq(inner, n + 1, Len(inner)))

\* An inner instruction is given the ones that follow it up to the next one
\* of the same program.
Hoisted(inner, n) ==
    LET same == {m \in n + 1 .. Len(inner) : inner[m].program = inner[n].program}
        last == IF same = {} THEN Len(inner) ELSE Min(same) - 1
    IN  Work(inner[n], SubSeq(inner, n + 1, last))

hoist_known_programs(inner) ==
    LET known == SelectSeq([n \in DOMAIN inner |-> n], LAMBDA n : inner[n].program \in key_set)
    IN  [n \in DOMAIN known |-> Hoisted(inner, known[n])]

\* The known instructions inside an outer one come before it.
order_instructions(message) ==
    LET of(call) == hoist_known_programs(call.inner)
                    \o (IF call.outer.program \in key_set
                        THEN <<Work(call.outer, call.inner)>> ELSE << >>)
    IN  FoldLeft(LAMBDA done, call : done \o of(call), << >>, message)

\* The parts of that order are among these.
Works(message) ==
    UNION {{Hoisted(call.inner, n) : n \in DOMAIN call.inner} \cup {Work(call.outer, call.inner)} :
              call \in ToSet(message)}

-----------------------------------------------------------------------------
(* BubblegumParser::handle_instruction.                                    *)

\* What the payload of an instruction holds, and the account it is read from.
Payloads ==
    [MintV1 |-> [kind |-> "mint", key |-> 4],
     MintToCollectionV1 |-> [kind |-> "mint", key |-> 4],
     MintV2 |-> [kind |-> "mint", key |-> 7],
     VerifyCreator |-> [kind |-> "creator", key |-> 6],
     UnverifyCreator |-> [kind |-> "creator", key |-> 6],
     VerifyCreatorV2 |-> [kind |-> "creator", key |-> 3],
     UnverifyCreatorV2 |-> [kind |-> "creator", key |-> 3],
     VerifyCollection |-> [kind |-> "collection", key |-> 9],
     UnverifyCollection |-> [kind |-> "collection", key |-> 9],
     SetAndVerifyCollection |-> [kind |-> "collection", key |-> 9],
     SetCollectionV2 |-> [kind |-> "collection", key |-> 9],
     UpdateMetadata |-> [kind |-> "update", key |-> 9],
     UpdateMetadataV2 |-> [kind |-> "update", key |-> 6],
     CancelRedeem |-> [kind |-> "root", key |-> 0],
     DecompressV1 |-> [kind |-> "args", key |-> 0]]

\* The builders need the arguments and the account; the collection's does
\* not look at the arguments.
Builds(ix) ==
    ix.name \in DOMAIN Payloads =>
        /\ ix.keys >= Payloads[ix.name].key
        /\ ix.args \/ Payloads[ix.name].kind = "collection"

payload(ix) == IF ix.name \in DOMAIN Payloads THEN Payloads[ix.name].kind ELSE "none"

\* The last event of each kind wins; one that does not deserialize is skipped.
events(inner, kind) ==
    LET found == {n \in DOMAIN inner : inner[n].program \in Noops /\ inner[n].name = kind}
    IN  IF found = {} THEN 0 ELSE inner[Max(found)].of

\* A leaf event that is no leaf schema makes the whole instruction fail.
BadLeaf(inner) == \E n \in DOMAIN inner : inner[n].program \in Noops /\ inner[n].name = "no_schema"

handle_instruction(work) ==
    [error |-> BadLeaf(work.inner) \/ ~Builds(work.ix),
     name |-> work.ix.name,
     tree_update |-> events(work.inner, "change_log"),
     leaf_update |-> events(work.inner, "leaf_schema"),
     payload |-> payload(work.ix)]

-----------------------------------------------------------------------------
(* handle_bubblegum_instruction: what the handlers ask of the parser.      *)

Mints == {"MintV1", "MintToCollectionV1", "MintV2"}
Updates == {"UpdateMetadata", "UpdateMetadataV2"}
Creators == {"VerifyCreator", "UnverifyCreator", "VerifyCreatorV2", "UnverifyCreatorV2"}
Collections == {"VerifyCollection", "UnverifyCollection", "SetAndVerifyCollection",
                "SetCollectionV2"}
Moves == {"Transfer", "TransferV2", "Delegate", "DelegateV2", "DelegateAndFreezeV2", "FreezeV2",
          "SetNonTransferableV2", "ThawV2", "ThawAndRevokeV2", "CancelRedeem"}
Leaves == {"Burn", "BurnV2", "Redeem"}

\* A handler that lacks an event or the payload answers ParsingError.
Accepts(parsed) ==
    /\ parsed.tree_update # 0
    /\ parsed.name \in Leaves \/ parsed.leaf_update # 0
    /\ parsed.name \in Mints => parsed.payload = "mint"
    /\ parsed.name \in Updates => parsed.payload = "update"
    /\ parsed.name \in Creators => parsed.payload = "creator"
    /\ parsed.name \in Collections => parsed.payload = "collection"

Handled(name) == name \in Mints \cup Updates \cup Creators \cup Collections \cup Moves \cup Leaves

\* What handle_transaction does with one instruction of a transaction.
Outcome(work) ==
    LET parsed == handle_instruction(work)
    IN  IF work.ix.lost THEN "deserialization_error"
        ELSE CASE work.ix.program = "bubblegum" ->
                    IF parsed.error THEN "parsing_error"
                    ELSE IF ~Handled(parsed.name) THEN "ignore"
                    ELSE IF Accepts(parsed) THEN "apply" ELSE "parsing_error"
               [] work.ix.program \in {"token", "token_2022"} /\ work.ix.name = "close" -> "close"
               [] OTHER -> "not_implemented"
=============================================================================
