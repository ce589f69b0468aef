SPECIFICATION Spec
CONSTANTS
    Clients = {c1}
    Voice = Voice
    c1 = c1
    alice = alice
    bob = bob
    Identities = {alice}
    Who <- WhoSweeps
    Tools = {"delete_ticket", "set_priority"}
    Resolutions = {"confirm", "cancel"}
    MaxIds = 2
    MaxLapsed = 1
    Expired = Expired
    Spoken <- SpokenSweeps
    Refs <- RefsSweeps
INVARIANTS
    Accounted
    BareAffirmationSingleRisk
PROPERTIES
    TakenSettles
    AgeRespected
