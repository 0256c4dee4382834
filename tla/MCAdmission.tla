---------------------------- MODULE MCAdmission ----------------------------
(***************************************************************************)
(* The admission of objects with two SSH keys; the VirtualMachines differ  *)
(* from an ordinary one in their rules and cloud-init data, or in their    *)
(* resources and tolerations.                                              *)
(***************************************************************************)
EXTENDS AdmissionWebhooks, TLC

SlotSymmetry == Permutations(Slots)

Text(h, y, u, k, l) ==
    [kind |-> "text", header |-> h, yaml |-> y, user |-> u, keys |-> k, list |-> l]
NoText == [Text(FALSE, FALSE, FALSE, "none", {}) EXCEPT !.kind = "absent"]
Good == Text(TRUE, TRUE, TRUE, "none", {})

Texts ==
    {NoText, [NoText EXCEPT !.kind = "notString"], Good,
     Text(FALSE, TRUE, TRUE, "list", {"k1"}),   \* no header, a key
     Text(TRUE, FALSE, FALSE, "none", {}),      \* not YAML
     Text(TRUE, TRUE, FALSE, "none", {}),       \* no user
     Text(TRUE, TRUE, TRUE, "nested", {"k1"}),
     Text(TRUE, TRUE, TRUE, "other", {})}

Ordinary ==
    [runStrategy |-> "none", grace |-> [kind |-> "absent", secs |-> 0],
     tolerations |-> {}, volumes |-> "cloudinitdisk",
     cloudInit |-> [t \in {"cloudInitNoCloud"} |-> Good], strings |-> TRUE,
     requests |-> <<>>, limits |-> <<>>, memory |-> <<>>]

Ruled ==
    {[Ordinary EXCEPT !.runStrategy = s, !.grace = g] :
        s \in {"none", "Manual", "Always", "notString"},
        g \in {[kind |-> "absent", secs |-> 0], [kind |-> "other", secs |-> 0],
               [kind |-> "int", secs |-> 180], [kind |-> "int", secs |-> 181]}}

CloudInits ==
    UNION {[T -> Texts] : T \in {{}, {"cloudInitNoCloud"}, {"cloudInitConfigDrive"}}}
        \union [supportedCloudInitConfigTypes -> {NoText, Good}]

Started ==
    {[Ordinary EXCEPT !.volumes = "none"], [Ordinary EXCEPT !.volumes = "others"]} \union
    {[Ordinary EXCEPT !.cloudInit = c] : c \in CloudInits}

Sized ==
    {[Ordinary EXCEPT !.requests = r, !.limits = l, !.memory = m, !.strings = s] :
        r \in {<<>>, [memory |-> 1], [memory |-> 1, cpu |-> 1]},
        l \in {<<>>, [memory |-> 2]},
        m \in {<<>>, [guest |-> 1], [guest |-> 1, maxGuest |-> 2]},
        s \in BOOLEAN}

Tolerating ==
    {[Ordinary EXCEPT !.tolerations = t] :
        t \in {{"own"}, {"own", sandboxToleration}, {"notAList"}}}

MCConfigs == {{}, {"k1"}, {"k1", "k2"}}
MCVMs == Ruled \union Started \union Sized \union Tolerating
===========================================================================
