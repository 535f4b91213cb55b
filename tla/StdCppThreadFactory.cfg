SPECIFICATION FactorySpec
CONSTANTS
    Objects = {o1, o2, o3}
    Ids = {i1, i2, i3}
    NoId = NoId
    Null = Null
INVARIANT CurrentThreadIsOwn
