SPECIFICATION Spec
CONSTANT r1 = r1
CONSTANT r2 = r2
CONSTANT a1 = a1
CONSTANT a2 = a2
CONSTANT d1 = d1
CONSTANT d2 = d2
CONSTANT i1 = i1
CONSTANT i2 = i2
CONSTANT PackageIds = {i1, i2}
CONSTANT Requests = {r1, r2}
CONSTANT Blueprints = {"b1"}
CONSTANT Agents = {a1, a2}
CONSTANT Designs = {d1, d2}
CONSTANT Findings <- MCFindings
CONSTANT Bodies <- MCBodies
CONSTANT Documents <- MCDocuments
SYMMETRY Swap
INVARIANT BuiltAsApproved
INVARIANT SandboxPermitted
