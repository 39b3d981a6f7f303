CONSTANTS
    r1 = r1
    d1 = d1
    Readers <- MCReader
    Writers <- MCWriters
    Tools = {"query"}
    Projects <- MCProjects
    Shards <- MCShards
    MaxGen = 2
    MaxRetained = 1
    MaxTamper = 0
SPECIFICATION Spec
INVARIANT StableCatalogAnswers
PROPERTY QueryIsAtomic
