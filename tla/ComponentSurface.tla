-------------------------- MODULE ComponentSurface --------------------------
(* inspect_component: one pass over the payloads of a component that the
   validator has accepted, counting sections and collecting what the outermost
   component imports and exports. The payloads come from an external parser; what
   it knows of the component's true nesting is in component.                    *)
EXTENDS Checks, SequencesExt

CONSTANTS
    MaxDepth, MaxSections, MaxTypes, MaxNames, MaxCustoms, MaxCustomBytes,
    ExpectedImport, ExpectedExport,
    Payloads        \* records [kind, names, size]

VARIABLES
    inspecting,     \* payloads, accepted or the error returned
    surface,        \* the variables of inspect_component
    component       \* the parser's: open units, outermost first, and the true surface

surfaceVars == <<inspecting, surface, component>>

Versions == {"component", "module"}

Sections == {"import", "export", "type", "custom", "other"}

NoSurface == [depth |-> 0, maximumDepth |-> 0, sections |-> 0, types |-> 0, customs |-> 0,
              customBytes |-> 0, imports |-> <<>>, exports |-> <<>>,
              version |-> FALSE, end |-> FALSE]

SurfaceInit ==
    /\ inspecting = "payloads"
    /\ surface = NoSurface
    /\ component = [open |-> <<>>, ended |-> FALSE, imports |-> <<>>, exports |-> <<>>]

-----------------------------------------------------------------------------
(* The parser *)

\* Only components import, export and hold other units.
Parses(payload) ==
    /\ ~component.ended
    /\ IF component.open = <<>>
       THEN payload.kind \in Versions
       ELSE payload.kind \in Versions \union {"import", "export"} =>
                Last(component.open) = "component"

\* names is a sequence of [name, plain]; plain: an instance without annotations.
NamesOf(payload) == [i \in DOMAIN payload.names |-> payload.names[i].name]

Parsed(payload) ==
    LET outermost == Len(component.open) = 1 IN
    [open    |-> CASE payload.kind \in Versions -> Append(component.open, payload.kind)
                   [] payload.kind = "end"      -> Front(component.open)
                   [] OTHER                     -> component.open,
     ended   |-> payload.kind = "end" /\ outermost,
     imports |-> component.imports \o
                    (IF payload.kind = "import" /\ outermost THEN NamesOf(payload) ELSE <<>>),
     exports |-> component.exports \o
                    (IF payload.kind = "export" /\ outermost THEN NamesOf(payload) ELSE <<>>)]

-----------------------------------------------------------------------------
(* inspect_component *)

Outermost == surface.depth = 0

Nested(payload) == payload.kind \in Versions /\ surface.version

\* Fault: nothing after the first nested unit is taken for the outermost's.
CollectedBeforeNesting(payload, kind) ==
    IF payload.kind = kind /\ surface.maximumDepth = 0 THEN NamesOf(payload) ELSE <<>>

\* The names a payload adds to the list; push_name keeps it within MaxNames.
Collected(payload, kind) ==
    IF payload.kind = kind /\ Outermost THEN NamesOf(payload) ELSE <<>>

Counted(payload) ==
    LET Of(kinds, n) == IF payload.kind \in kinds THEN n ELSE 0
        depth == surface.depth + (IF Nested(payload) THEN 1 ELSE 0)
                               - (IF payload.kind = "end" /\ ~Outermost THEN 1 ELSE 0)
    IN  [depth        |-> depth,
         maximumDepth |-> Max({surface.maximumDepth, depth}),
         sections     |-> surface.sections + Of(Sections, 1),
         types        |-> surface.types + Of({"type"}, payload.size),
         customs      |-> surface.customs + Of({"custom"}, 1),
         customBytes  |-> surface.customBytes + Of({"custom"}, payload.size),
         imports      |-> surface.imports \o Collected(payload, "import"),
         exports      |-> surface.exports \o Collected(payload, "export"),
         version      |-> surface.version \/ payload.kind \in Versions,
         end          |-> surface.end \/ (payload.kind = "end" /\ Outermost)]

PayloadStatus(payload) ==
    LET after == Counted(payload) IN
    FirstFailure(<<
        <<~surface.version /\ payload.kind # "component", "Component">>,
        <<after.maximumDepth > MaxDepth, "Component">>,
        <<payload.kind \in {"import", "export"} /\ Outermost
            /\ \E i \in DOMAIN payload.names : ~payload.names[i].plain, "ComponentSurface">>,
        <<Len(after.imports) > MaxNames \/ Len(after.exports) > MaxNames, "ComponentSurface">>,
        <<after.types > MaxTypes, "Component">>,
        <<after.customs > MaxCustoms \/ after.customBytes > MaxCustomBytes, "Component">>,
        <<after.sections > MaxSections, "Component">> >>)

InspectPayload(payload) ==
    /\ inspecting = "payloads" /\ Parses(payload)
    /\ component' = Parsed(payload)
    /\ IF PayloadStatus(payload) = "Ok"
       THEN surface' = Counted(payload) /\ UNCHANGED inspecting
       ELSE inspecting' = PayloadStatus(payload) /\ UNCHANGED surface

FinishInspection ==
    /\ inspecting = "payloads" /\ component.ended
    /\ inspecting' = IF /\ surface.version /\ surface.end
                        /\ surface.imports = <<ExpectedImport>>
                        /\ surface.exports = <<ExpectedExport>>
                     THEN "accepted"
                     ELSE "ComponentSurface"
    /\ UNCHANGED <<surface, component>>

-----------------------------------------------------------------------------

\* A component that inspect_component accepts imports exactly the console and
\* exports exactly the task at its outermost level, in whatever order its sections,
\* nested components and core modules come; what nested units import is their own.
AcceptedSurface ==
    inspecting = "accepted" =>
        component.imports = <<ExpectedImport>> /\ component.exports = <<ExpectedExport>>
=============================================================================
