---------------------------------- MODULE Tools ----------------------------------
(***************************************************************************)
(* The tools a turn calls that are not modelled elsewhere                  *)
(* (mcpserver/tools/): a section of a policy and its place in the          *)
(* document, a person's profile, and the two writes with the card each is  *)
(* proposed on; and the index they read, with the builds that leave it     *)
(* (rag/ingest.py, rag/index.py).                                          *)
(***************************************************************************)
EXTENDS Rules, Filters

-----------------------------------------------------------------------------
(* Sections. A document is its chunks, in order: sections, each of one or  *)
(* two overlapping windows. AB and AC are under A; A has no text of its    *)
(* own in some documents.                                                  *)
ParentOf == [A |-> "", AB |-> "A", AC |-> "A", D |-> ""]
Headings == DOMAIN ParentOf
Outlines == {<<"A", "AB", "AC", "D">>, <<"AB", "AC", "D">>, <<"A", "D">>, <<"D">>}
Chunks(outline, split) ==
    LET windows(n) == IF outline[n] = split
                      THEN <<[path |-> outline[n], id |-> 2 * n, start |-> 10 * n, end |-> 10 * n + 5],
                             [path |-> outline[n], id |-> 2 * n + 1, start |-> 10 * n + 4, end |-> 10 * n + 9]>>
                      ELSE <<[path |-> outline[n], id |-> 2 * n, start |-> 10 * n, end |-> 10 * n + 9]>>
    IN  FlattenSeq([n \in DOMAIN outline |-> windows(n)])
NoChunk == 0
NoSection == "none"
SectionInputs == [chunks : {Chunks(o, h) : o \in Outlines, h \in Headings \cup {NoSection}},
                  heading_path : Headings \cup {NoSection}, chunk_id : 0..9, include_neighbors : BOOLEAN]

IdsOf(chunks, path) ==
    LET of == Filter(chunks, LAMBDA c : c.path = path) IN [n \in DOMAIN of |-> of[n].id]
ordered_paths(chunks) ==
    LET first(n) == \A m \in 1..(n - 1) : chunks[m].path # chunks[n].path
        at == Filter([n \in DOMAIN chunks |-> n], first)
    IN  [n \in DOMAIN at |-> chunks[at[n]].path]

\* The section the selectors name, chunk_id before heading_path.
SectionAt(i) ==
    LET target == {n \in DOMAIN i.chunks : i.chunks[n].id = i.chunk_id}
    IN  IF i.chunk_id # NoChunk THEN IF target = {} THEN NoSection ELSE i.chunks[Min(target)].path
        ELSE IF \E n \in DOMAIN i.chunks : i.chunks[n].path = i.heading_path THEN i.heading_path ELSE NoSection

\* The section at path, which has this position among the document's.
SectionIn(i, path, paths, position) ==
    LET before == IF position > 1 THEN paths[position - 1] ELSE NoSection
        after == IF position < Len(paths) THEN paths[position + 1] ELSE NoSection
        own == Filter(i.chunks, LAMBDA c : c.path = path)
    IN  [status |-> "ok", path |-> path, chunk_ids |-> IdsOf(i.chunks, path), prev |-> before, next |-> after,
         text |-> IF i.include_neighbors
                  THEN IdsOf(i.chunks, before) \o IdsOf(i.chunks, path) \o IdsOf(i.chunks, after) ELSE IdsOf(i.chunks, path),
         start |-> Min({own[n].start : n \in DOMAIN own}), end |-> Max({own[n].end : n \in DOMAIN own}),
         siblings |-> Filter(paths, LAMBDA p : p # path /\ ParentOf[p] = ParentOf[path])]
_section(i) ==
    LET path == SectionAt(i)
        paths == ordered_paths(i.chunks)
    IN  IF path = NoSection THEN [status |-> IF i.chunk_id = NoChunk /\ i.heading_path = NoSection THEN "invalid_arguments" ELSE "not_found"]
        ELSE SectionIn(i, path, paths, CHOOSE n \in DOMAIN paths : paths[n] = path)

(***************************************************************************)
(* A chunk id finds the section it is of whatever heading came with it; a  *)
(* section's text is its own windows, with its neighbours' a stretch of    *)
(* the document without a gap; going on and back, or to a sibling and      *)
(* back, returns; and the sections' spans do not overlap                   *)
(* (get_policy_section._section).                                          *)
(***************************************************************************)
SectionsAreInPlace(i) ==
    LET out == _section(i)
        at(path) == _section([i EXCEPT !.chunk_id = NoChunk, !.heading_path = path])
        stretch == {n \in DOMAIN i.chunks : i.chunks[n].id \in ToSet(out.text)}
    IN  /\ i.chunk_id # NoChunk => _section([i EXCEPT !.heading_path = NoSection]) = out
        /\ out.status = "ok" <=> IF i.chunk_id = NoChunk THEN \E n \in DOMAIN i.chunks : i.chunks[n].path = i.heading_path
                                 ELSE \E n \in DOMAIN i.chunks : i.chunks[n].id = i.chunk_id
        /\ out.status = "ok" =>
              /\ i.chunk_id # NoChunk => i.chunk_id \in ToSet(out.chunk_ids)
              /\ Cardinality(stretch) = Len(out.text) /\ Max(stretch) - Min(stretch) + 1 = Len(out.text)
              /\ out.next # NoSection => at(out.next).prev = out.path /\ at(out.next).start >= out.end
              /\ out.prev # NoSection => at(out.prev).next = out.path
              /\ \A p \in ToSet(out.siblings) : out.path \in ToSet(at(p).siblings)

-----------------------------------------------------------------------------
(* People. The org map and the profiles agree on who manages whom; the     *)
(* skip level is the manager's manager.                                    *)
Acyclic(m) == \A p \in People : m[p] # p /\ m[Last(<<p>> \o chain(p, m))] = Nobody
ProfileInputs == [managers : {m \in [People -> People \cup {Nobody}] : Acyclic(m)}, who : People \cup {Nobody}]
skip_level(managers, p) == IF managers[p] = Nobody THEN Nobody ELSE managers[managers[p]]

\* Of the two roles the profile asks for, "Skip-level" is none that resolve knows.
approvers_of(managers, p) ==
    {a \in {resolve("manager", p, [q \in People |-> "staff"], managers).person} : a # Nobody}
recipient_name(managers, p, role) ==
    LET target == IF role = "manager" THEN managers[p] ELSE IF role = "skip_level" THEN skip_level(managers, p) ELSE Nobody
    IN  IF target = Nobody THEN "people ops" ELSE "a person"
_profile(i) ==
    IF i.who = Nobody THEN [status |-> "not_found"]
    ELSE [status |-> "ok", manager |-> i.managers[i.who], skip_level |-> skip_level(i.managers, i.who),
          approvers |-> approvers_of(i.managers, i.who)]

\* read_meta: who asked, when the call names nobody.
read_meta(named) == [actor |-> IF named = Nobody THEN "E1042" ELSE "named", source |-> IF named = Nobody THEN "default" ELSE "explicit"]

(***************************************************************************)
(* The manager a profile names is the approver it lists, if they are one   *)
(* person's manager at all, and the one a draft to the manager is          *)
(* addressed to; a person with none writes to People Operations           *)
(* (lookup_employee_profile, approvers.resolve, draft_hr_email).           *)
(***************************************************************************)
OneManagerPerPerson(i) ==
    LET out == _profile(i)
    IN  out.status = "ok" =>
          /\ out.approvers = {out.manager} \ {Nobody}
          /\ \A role \in {"manager", "skip_level", "benefits_team"} :
                recipient_name(i.managers, i.who, role) = "a person" <=>
                    (role = "manager" /\ out.approvers # {}) \/ (role = "skip_level" /\ out.skip_level # Nobody)
          /\ read_meta(i.who).source = "explicit"

-----------------------------------------------------------------------------
(* The writes. A token is of the arguments the card was made from.         *)
Arguments_ == [tool : {"ticket", "email"}, about : {"s1", "s2"}, to : {"manager", "benefits_team"}, hidden : {1, 2}]
WriteInputs == [proposed : Arguments_, called : Arguments_, token : BOOLEAN, manager : BOOLEAN]

\* What the card shows: all but the details of a ticket and the points of a draft.
preview(args, manager) ==
    [tool |-> args.tool, about |-> args.about,
     to |-> IF args.tool = "ticket" THEN args.to ELSE IF args.to = "manager" /\ manager THEN "lee" ELSE "people ops"]

\* The row if the token is of these arguments, else a card of them.
_ticket(i) ==
    IF i.token /\ i.called = i.proposed
    THEN [filed |-> {[shown |-> preview(i.called, FALSE), hidden |-> i.called.hidden]}, card |-> {}]
    ELSE [filed |-> {}, card |-> {preview(i.called, FALSE)}]

\* Whom it is to is looked up by the call that writes it, not kept from the card.
_draft(i) ==
    LET shown == preview(i.called, i.manager)
    IN  IF i.token /\ i.called = i.proposed THEN [filed |-> {[shown |-> shown, hidden |-> i.called.hidden]}, card |-> {}]
        ELSE [filed |-> {}, card |-> {shown}]
_write(i) == IF i.called.tool = "ticket" THEN _ticket(i) ELSE _draft(i)

(***************************************************************************)
(* What is filed is what the card said, with the details it was proposed   *)
(* with; a call that files nothing shows its own proposal and not an       *)
(* earlier one (create_mock_hr_ticket._ticket, draft_hr_email._draft).     *)
(***************************************************************************)
FiledIsWhatWasShown(i) ==
    LET card == _write([i EXCEPT !.token = FALSE, !.called = i.proposed]).card
        out == _write(i)
    IN  /\ \A w \in out.filed : w.shown \in card /\ w.hidden = i.proposed.hidden
        /\ out.filed # {} => i.token
        /\ \A c \in out.card : c.about = i.called.about /\ c.tool = i.called.tool

-----------------------------------------------------------------------------
(* The index. A corpus has a version, and a version so many chunks; the    *)
(* files hold a version, NoFile, or an index that has only its schema.     *)
NoFile == -1
SchemaOnly == 0
Versions == 1..3
ChunkCount == <<4, 4, 5>>
Builds == [op : {"ingest", "verify"}, corpus : Versions, model : {"m1", "m2"}, crash : 0..4]
IngestInputs == {<<a>> : a \in Builds} \cup {<<a, b>> : a \in {b \in Builds : b.corpus < 3}, b \in Builds}
Nothing == [manifest |-> NoFile, index |-> NoFile, model |-> "m1", report |-> NoFile, exit |-> 2]

\* A build cut short before step crash of: the manifest, unlinking the index, its schema,
\* its rows in one commit; 0 for one that ends.
Reaches(b, n) == b.crash = 0 \/ n < b.crash
build_index(files, b) ==
    [files EXCEPT !.index = IF Reaches(b, 4) THEN b.corpus ELSE IF Reaches(b, 3) THEN SchemaOnly
                            ELSE IF Reaches(b, 2) THEN NoFile ELSE files.index,
                  !.model = IF Reaches(b, 4) THEN b.model ELSE @]

\* ingest, then what main answers; --verify-manifest leaves the manifest.
ingest(files, b) ==
    LET written == [files EXCEPT !.manifest = IF b.op = "ingest" /\ Reaches(b, 1) THEN b.corpus ELSE @]
    IN  [build_index(written, b) EXCEPT !.report = IF b.crash = 0 THEN b.corpus ELSE @]
main(files, b) ==
    [ingest(files, b) EXCEPT
        !.exit = IF b.crash # 0 THEN 2 ELSE IF b.op = "verify" /\ files.manifest # b.corpus THEN 1 ELSE 0]

Built(builds) ==
    LET files[n \in 0..Len(builds)] == IF n = 0 THEN Nothing ELSE main(files[n - 1], builds[n]) IN files

\* open_index: refused without a file, without its meta row, or for another model.
check_meta(files, model) == files.index > SchemaOnly /\ files.model = model
selftest(files, model) == check_meta(files, model) /\ files.manifest > 0 /\ ChunkCount[files.index] = ChunkCount[files.manifest]

(***************************************************************************)
(* An index that can be opened is all of one corpus and was made by the    *)
(* model that reads it, wherever a build was cut short; a build that ends  *)
(* mends what one before it left; and a verify says yes only to the        *)
(* manifest of the corpus, which it never writes (ingest, build_index,     *)
(* check_meta, selftest).                                                  *)
(***************************************************************************)
BuildsAreWhole(builds) ==
    \A n \in DOMAIN builds :
        LET files == Built(builds)[n]
            b == builds[n]
        IN  /\ check_meta(files, "m2") => \E m \in 1..n : builds[m].model = "m2" /\ builds[m].corpus = files.index
            /\ b.crash = 0 => check_meta(files, b.model) /\ files.index = b.corpus /\ files.report = b.corpus
            /\ (b.crash = 0 /\ b.op = "ingest") => files.manifest = b.corpus /\ selftest(files, b.model)
            /\ b.op = "verify" => files.manifest = Built(builds)[n - 1].manifest /\ (files.exit = 0 => files.manifest = b.corpus)
            /\ selftest(files, b.model) => ChunkCount[files.index] = ChunkCount[files.manifest]
=============================================================================
