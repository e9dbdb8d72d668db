--------------------------------- MODULE MCAcpi ---------------------------------
(* Every kernel on small firmwares: all MADTs of up to three entries behind    *)
(* one good pair of tables, and all combinations of root tables and broken     *)
(* RSDPs in front of one MADT.                                                 *)
EXTENDS Acpi

Lapic(id, on) == [kind |-> "lapic", size |-> 8, enabled |-> on, id |-> id]
IoApic == [kind |-> "ioapic", size |-> 12, enabled |-> TRUE, id |-> "none"]
Entries == {Lapic("a", TRUE), Lapic("b", TRUE), Lapic("c", TRUE), Lapic("c", FALSE), IoApic,
            [IoApic EXCEPT !.size = 0], [Lapic("b", TRUE) EXCEPT !.size = 0]}
Madts == {m \in SeqOf(Entries, 3) :
            \A i, j \in DOMAIN m : i # j /\ m[i].id = m[j].id => m[i].id = "none"}
PlainMadt == <<IoApic, Lapic("a", TRUE), Lapic("b", TRUE)>>

Root(sum, tables) == [sum |-> sum, tables |-> tables]
Roots == {Root(TRUE, <<"FACP", "APIC">>), Root(TRUE, <<"FACP">>), Root(FALSE, <<"APIC">>)}
Rsdps == [sum : BOOLEAN, rev2 : BOOLEAN, rsdt : Roots, xsdt : Roots \cup {NoTable}]
Plain == [sum |-> TRUE, rev2 |-> TRUE, rsdt |-> Root(TRUE, <<"FACP", "APIC">>),
          xsdt |-> Root(TRUE, <<"FACP", "APIC">>)]

SmallFirmwares ==
  [ebda : {<<>>}, bios : {<<Plain>>}, madt : Madts, bsp : {"a"}]
  \cup [ebda : {<<>>, <<Plain>>, <<[Plain EXCEPT !.sum = FALSE, !.rsdt = Root(TRUE, <<"FACP">>)]>>},
        bios : {<<>>} \cup {<<r>> : r \in Rsdps}
               \cup {<<r, Plain>> : r \in {s \in Rsdps : ~s.sum}},
        madt : {PlainMadt}, bsp : {"a"}]
================================================================================
