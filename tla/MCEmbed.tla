------------------------------- MODULE MCEmbed -------------------------------
(* One instance of the index of meanings for TLC.  A behaviour is about    *)
(* the download of the model, about the runs and searches over the         *)
(* vectors, or about the batches of one slab; the rest stands still.       *)
EXTENDS Embedding, ModelDownload, Slabs

CONSTANTS p1, p2, v1, v2, h1, h2, h3, r1, r2

VARIABLE about

TwoRuns    == {p1, p2}
TwoWidths  == {v1, v2}
ThreeHeads == {h1, h2, h3}
TwoRests   == {r1, r2}

mvars == <<dvars, evars, svars, about>>

NoModel == /\ final = [f \in Files |-> <<>>] /\ parts = <<>> /\ saving = NoSave /\ dlock = Free
           /\ disabled = FALSE /\ proc = <<>> /\ kills = 0 /\ faults = 0 /\ hands = 0 /\ resaved = {}
NoIndex == /\ turns = 0 /\ vec = [t \in Turns |-> None] /\ folder = None
           /\ off = FALSE /\ file = Healthy /\ window = FALSE /\ lock = Nobody
           /\ run = <<>> /\ query = NoQuery /\ cause = FALSE /\ events = 0
NoSlab  == slab = <<>> /\ next = 1 /\ held = <<>> /\ gone = {} /\ sent = <<>>

MInit ==
  \/ about = "model" /\ DInit /\ NoIndex /\ NoSlab
  \/ about = "index" /\ NoModel /\ EInit /\ NoSlab
  \/ about = "slab" /\ NoModel /\ NoIndex /\ SlabInit

Only(what, act, others) == about = what /\ act /\ UNCHANGED <<others, about>>
InModel(act) == Only("model", act, <<evars, svars>>)
InIndex(act) == Only("index", act, <<dvars, svars>>)
InSlab(act)  == Only("slab", act, <<dvars, evars>>)

MNext == InModel(DNext) \/ InIndex(ENext) \/ InSlab(SlabNext)

MFairness ==
  /\ \A p \in Procs : /\ WF_mvars(InModel(EnsureModel(p)))
                      /\ WF_mvars(InModel(Advance(p)))
  /\ \A p \in Runs : /\ WF_mvars(InIndex(SpawnIfDue(p)))
                     /\ WF_mvars(InIndex(Works(p)))
  /\ WF_mvars(InIndex(WindowPasses))

EmbedSpec == MInit /\ [][MNext]_mvars /\ MFairness

(* The model arrives while indexing is left on (ModelDownload).            *)
ArrivesInTheEnd == about = "model" => ModelArrives

(* Every archived turn is indexed in the end (Embedding).                  *)
IndexedInTheEnd == about = "index" => EveryTurnIndexed
=============================================================================
